---- MODULE Spec2Model ----
(***************************************************************************)
(* Model of the session poller of the playground's shared client library:  *)
(* getSessionStatus, extractErrorMessage and waitForSession.               *)
(*                                                                         *)
(* An async function runs synchronously up to its next await, so each      *)
(* action is one such run: Invoke (call up to the first fetch),             *)
(* FetchOk / FetchError (the continuation after the awaited fetch) and     *)
(* SleepDone (the continuation after the awaited setTimeout).  Tick is the *)
(* wall clock (Date.now) advancing while the poll is suspended.            *)
(***************************************************************************)
EXTENDS Integers, Sequences, FiniteSets, TLC

\* ---------------------------------------------------------------- bounds
MaxTime == 4
MaxFetches == 3
MaxStart == 1

\* ------------------------------------------------------------ data model
\* Session.status, plus one value outside the enumeration
KnownStatuses == {"pending", "processing", "completed", "fetched", "failed", "expired"}

UnknownStatuses == {"queued"}

Statuses == KnownStatuses \cup UnknownStatuses

\* Session.presentation: absent, or {given_name: "Ana"}
Presentations == {"none", "Ana"}

Sessions == [status : Statuses, presentation : Presentations]

NoSession == [status |-> "none", presentation |-> "none"]

NoError == [name |-> "none", message |-> "none"]

\* WaitOptions: timeout and interval in clock units, onUpdate given or not
Timeouts == {0, 2, 3}

Intervals == {0, 1, 2}

\* what the onUpdate callback does when called: returns, or throws this error
ObserverError == [name |-> "Error", message |-> "observer failed"]

\* ------------------------------------------------- extractErrorMessage
\* JSON bodies of a non-2xx answer: a bare string, an object with a string
\* `error`, an object with a string `message` only, any other object, or a
\* value that is neither string nor object (null, number)
ErrorBodies ==
    { [kind |-> "string", error |-> "none", message |-> "none", text |-> "Session timed out"],
      [kind |-> "object", error |-> "Session not found", message |-> "none", text |-> "none"],
      [kind |-> "object", error |-> "Session expired", message |-> "ignored", text |-> "none"],
      [kind |-> "object", error |-> "none", message |-> "Internal error", text |-> "none"],
      [kind |-> "object", error |-> "none", message |-> "none", text |-> "{\"code\":7}"],
      [kind |-> "null", error |-> "none", message |-> "none", text |-> "none"] }

\* mutant of extractErrorMessage: `message` is looked at before `error`
extractErrorMessagePrefersMessage(error, fallback) ==
    IF error.kind = "string" THEN error.text
    ELSE IF error.kind = "object"
         THEN IF error.message # "none" THEN error.message
              ELSE IF error.error # "none" THEN error.error
              ELSE error.text
         ELSE fallback

extractErrorMessage(error, fallback) ==
    IF error.kind = "string" THEN error.text
    ELSE IF error.kind = "object"
         THEN IF error.error # "none" THEN error.error
              ELSE IF error.message # "none" THEN error.message
              ELSE error.text
         ELSE fallback

\* ---------------------------------------------------- getSessionStatus
\* what the HTTP layer can answer to GET /api/session/<id>
HttpStatuses == {404, 500}

OkResponses == [net : {"up"}, ok : {TRUE}, code : {200}, json : {TRUE}, session : Sessions, body : {NoError}]

Responses ==
    { [net |-> "down", ok |-> FALSE, code |-> 0, json |-> FALSE, session |-> NoSession,
       body |-> [kind |-> "null", error |-> "none", message |-> "none", text |-> "none"]] }
    \cup { [net |-> "up", ok |-> TRUE, code |-> 200, json |-> FALSE, session |-> NoSession,
            body |-> [kind |-> "null", error |-> "none", message |-> "none", text |-> "none"]] }
    \cup [net : {"up"}, ok : {FALSE}, code : HttpStatuses, json : {FALSE}, session : {NoSession},
          body : {[kind |-> "null", error |-> "none", message |-> "none", text |-> "none"]}]
    \cup [net : {"up"}, ok : {FALSE}, code : HttpStatuses, json : {TRUE}, session : {NoSession},
          body : ErrorBodies]

NetworkError == [name |-> "TypeError", message |-> "Failed to fetch"]

DecodeError == [name |-> "SyntaxError", message |-> "Unexpected token in JSON"]

\* the error getSessionStatus throws for a response it cannot return, or
\* NoError when the response is 2xx with a decodable body
getSessionStatusError(resp) ==
    IF resp.net = "down" THEN NetworkError
    ELSE IF ~resp.ok
         THEN IF ~resp.json
              THEN [name |-> "Error",
                    message |-> "Request failed with status " \o ToString(resp.code)]
              ELSE [name |-> "Error",
                    message |-> extractErrorMessage(resp.body, "Failed to get session")]
         ELSE IF ~resp.json THEN DecodeError ELSE NoError

\* the Session getSessionStatus returns: response.json() of a 2xx answer
getSessionStatusResult(resp) == resp.session

\* ------------------------------------------------------- waitForSession
VARIABLES
    pc,           \* "idle" | "fetching" | "sleeping" | "done"
    now,          \* Date.now()
    timeout,      \* options.timeout
    interval,     \* options.interval
    hasObserver,  \* options.onUpdate is given
    startTime,    \* const startTime
    sleepStart,   \* time at which the pending setTimeout was armed
    outcome,      \* how the returned promise settled
    settled,      \* number of times the promise was settled
    fetchStarts,  \* history: the time each getSessionStatus call was issued
    fetched,      \* history: what each call returned (session) or threw (error)
    updates,      \* history: the argument of each onUpdate call
    observerThrew,\* the last onUpdate call threw
    sleeps,       \* number of setTimeout sleeps armed
    instant       \* every getSessionStatus call so far completed in no time

vars == <<pc, now, timeout, interval, hasObserver, startTime, sleepStart, outcome,
          settled, fetchStarts, fetched, updates, observerThrew, sleeps, instant>>

Pending == [kind |-> "pending", session |-> NoSession, error |-> NoError]

Resolved(s) == [kind |-> "resolved", session |-> s, error |-> NoError]

Rejected(e) == [kind |-> "rejected", session |-> NoSession, error |-> e]

SessionError(status) == [name |-> "Error", message |-> "Session " \o status]

TimedOutError == [name |-> "Error", message |-> "Session timed out"]

\* mutant of the success test: every status not known to be pending or failed
IsSuccessUnlessPending(status) == status \notin {"pending", "processing", "failed", "expired"}

\* mutant of the success test: 'fetched' forgotten
IsSuccessCompletedOnly(status) == status = "completed"

\* status === 'completed' || status === 'fetched'
IsSuccess(status) == status = "completed" \/ status = "fetched"

\* status === 'failed' || status === 'expired'
IsFailure(status) == status = "failed" \/ status = "expired"

\* mutants of the while condition: deadline included; first iteration unguarded
LoopGuardInclusive(t, start, limit) == t - start <= limit

LoopGuardFirstAlways(t, start, limit) == t - start < limit \/ t = start

\* the while condition: Date.now() - startTime < timeout
LoopGuard(t, start, limit) == t - start < limit

\* mutant of the observer call: made after the terminal checks only
onUpdateCallsAfterChecks(session) ==
    IF session.status \in {"completed", "fetched", "failed", "expired"} THEN <<>> ELSE <<session>>

\* if (onUpdate) onUpdate(session): the calls made for one fetched Session
onUpdateCalls(session) == <<session>>

\* the page with several polls (below) has its own state
VARIABLES
    clock,   \* Date.now()
    polls    \* the locals of each invocation of waitForSession, and its history

pvars == <<clock, polls>>

\* a page of one of the six front ends (below) has its own state
VARIABLES
    app,      \* which front end the page belongs to
    loaded,   \* init() has run
    url,      \* the page URL carries a `session` query parameter
    button,   \* the action button: disabled, and which label it shows
    display,  \* what the page shows: sections, status badge and text, QR area
    flows,    \* resumeSession and the click handler: where each is suspended
    timers,   \* pending setTimeout callbacks of showSuccess
    clicks    \* clicks on the action button so far

uivars == <<app, loaded, url, button, display, flows, timers, clicks>>

\* the playground server and the browser that calls it (below) have their own state
VARIABLES
    backend,        \* the session the EUDIPLO backend holds
    eudiploClient,  \* the module-level client: 0 is null, else the instance
    clients,        \* EudiploClient instances constructed so far
    sdkCalls,       \* calls made to the backend SDK, in order
    txCodes,        \* transaction codes generateTxCode has returned
    handlers,       \* one route handler per request: where it is suspended, its reply
    browser         \* what the page that sent the requests has rendered

svars == <<backend, eudiploClient, clients, sdkCalls, txCodes, handlers, browser>>

\* a call of one of the request helpers of the shared client module
VARIABLES
    helperCall      \* the helper, the response its fetch got, what it threw or returned

hvars == <<helperCall>>

\* the state outside the single poll, outside the page with several polls,
\* outside the front-end page and outside the server
notPoll == <<pvars, uivars, svars, hvars>>

notPolls == <<vars, uivars, svars, hvars>>

notPage == <<vars, pvars, svars, hvars>>

notServer == <<vars, pvars, uivars, hvars>>

notHelper == <<vars, pvars, uivars, svars>>

PollIds == {1, 2}

\* no invocation has been made on the page with several polls
PollsQuiet ==
    /\ clock = 0
    /\ polls = [p \in PollIds |->
          [pc |-> "idle", timeout |-> 0, interval |-> 0, hasObserver |-> FALSE,
           startTime |-> 0, invokedAt |-> 0, afterDone |-> FALSE, sleepStart |-> 0,
           endedAt |-> 0, outcome |-> Pending, settled |-> 0, fetchStarts |-> <<>>,
           fetched |-> <<>>, updates |-> <<>>, observerThrew |-> FALSE]]

\* the state of a single poll before waitForSession is called with `limit`,
\* `delay` and an observer or none
PollIdle(limit, delay, observer) ==
    /\ pc = "idle"
    /\ now = 0
    /\ timeout = limit
    /\ interval = delay
    /\ hasObserver = observer
    /\ startTime = 0
    /\ sleepStart = 0
    /\ outcome = Pending
    /\ settled = 0
    /\ fetchStarts = <<>>
    /\ fetched = <<>>
    /\ updates = <<>>
    /\ observerThrew = FALSE
    /\ sleeps = 0
    /\ instant = TRUE

\* the single poll is not used
PollQuiet == PollIdle(0, 0, FALSE)

\* ------------------------------------------------------ front-end pages
Apps == {"job-portal", "sports-shop", "bank-onboarding", "sim-activation",
         "loyalty-card", "university-diploma"}

\* the front ends that verify a presentation: they have resumeSession, the
\* DC API branch and a click handler with a finally block
VerificationApps == {"job-portal", "sports-shop", "bank-onboarding", "sim-activation"}

\* the front ends with a status badge (updateStatus) and a delayed success screen
BadgeApps == {"job-portal", "sports-shop"}

\* the two async handlers of a page that start a poll
Flows == {"resume", "click"}

\* sections of a page: the start screen (verifySection, discountSection,
\* welcomeSection, productSection, registrationSection, startSection), the
\* QR/status screen (verificationSection, issuanceSection), the success
\* screen (successSection, checkoutSection) and infoSection
Sections == {"start", "verification", "success", "info"}

EnabledButton == [disabled |-> FALSE, label |-> "original"]

\* mutant of the busy button: the label changes, the button stays enabled
BusyButtonEnabled == [disabled |-> FALSE, label |-> "busy"]

BusyButton == [disabled |-> TRUE, label |-> "busy"]

NoDisplay ==
    [visible |-> {}, badge |-> "none", text |-> "n/a", errorStyle |-> FALSE,
     icon |-> "none", link |-> FALSE, resultPanel |-> FALSE]

\* the page as served: the start screen, no status yet
InitialDisplay(a) ==
    [visible |-> IF a \in BadgeApps THEN {"start", "info"} ELSE {"start"},
     badge |-> "none", text |-> "", errorStyle |-> FALSE,
     icon |-> "none", link |-> FALSE, resultPanel |-> FALSE]

\* the session id the page finds in its URL, and the one a created request gets
UrlSession == "s-url"

NewSession == "s-new"

\* a handler that has not run: where it is suspended, the fetches its poll
\* has made, the error its poll ended with, whether it called showSuccess,
\* the display it left when its poll ended, the session id it polls, the
\* requests it has created, whether the URL still had its session parameter
\* when the final state was shown, the statuses and steps of verifyWithDcApi,
\* and of callDcApi: what isDcApiAvailable() said, the calls of
\* navigator.credentials.get, what the browser returned, the error thrown
IdleFlow ==
    [pc |-> "idle", fetches |-> 0, failure |-> NoError, succeeded |-> FALSE,
     shown |-> NoDisplay, sessionId |-> "none", created |-> 0, urlShown |-> "n/a",
     trace |-> <<>>, dcApi |-> "n/a", gets |-> 0, credential |-> "n/a",
     dcError |-> NoError]

\* no page is open
PageQuiet ==
    /\ app = "job-portal"
    /\ loaded = FALSE
    /\ url = FALSE
    /\ button = EnabledButton
    /\ display = InitialDisplay("job-portal")
    /\ flows = [f \in Flows |-> IdleFlow]
    /\ timers = 0
    /\ clicks = 0

\* ------------------------------------------------------------ the server
\* two requests, so that two route handlers can be suspended at once
ReqIds == {1, 2}

\* a property that is absent, or undefined (JSON.stringify leaves it out)
Undefined == "undefined"

\* the session of the backend: its status, the presentation of a verified
\* session, the credentials of an issued one, and a field of the backend
\* record that is neither
BackendSessions ==
    [status : {"pending", "processing", "completed", "fetched", "failed"},
     presentation : {Undefined, "Ana"}, credentials : {Undefined, "diploma"},
     requestObject : {"signed-request"}]

NewBackendSession ==
    [status |-> "pending", presentation |-> Undefined, credentials |-> Undefined,
     requestObject |-> "signed-request"]

NoBody ==
    [error |-> Undefined, status |-> Undefined, presentation |-> Undefined,
     credentials |-> Undefined, requestObject |-> Undefined, uri |-> Undefined,
     sessionId |-> Undefined, txCode |-> Undefined, file |-> Undefined]

NoReply == [code |-> 0, body |-> NoBody]

\* the `claims` property of a request body: left out, or an object with the
\* properties it has (a member's claims, or properties named claims and useTxCode)
NoClaims ==
    [kind |-> Undefined, member_id |-> Undefined, claims |-> Undefined,
     useTxCode |-> Undefined]

\* a request: its route, whether express.json() parsed a body (req.body is
\* undefined otherwise), the properties of the body, the :id parameter and
\* req.path
NoRequest ==
    [route |-> "none", hasBody |-> TRUE, useCase |-> Undefined, credentialId |-> Undefined,
     claims |-> NoClaims, useTxCode |-> Undefined, id |-> Undefined,
     responseUri |-> Undefined, walletResponse |-> Undefined, path |-> <<>>,
     origin |-> "other"]

\* a route handler that has not been started: its request, where it is
\* suspended, the replies it has sent, the backend session it was handed,
\* the message of the error its SDK call threw, the number of replies the
\* server had sent when the request arrived, and the indexPath the fallback
\* route resolved
IdleHandler ==
    [request |-> NoRequest, pc |-> "none", reply |-> NoReply, replies |-> 0,
     served |-> NewBackendSession, delivered |-> FALSE, thrown |-> Undefined,
     after |-> 0, resolved |-> <<>>]

\* the page that sends the requests: the presentation showSuccess rendered,
\* and the transaction code the loyalty-card page displays
QuietBrowser ==
    [success |-> FALSE, rendered |-> Undefined, offered |-> FALSE,
     txCodeShown |-> Undefined, secure |-> FALSE]

\* no request helper has been called
NoHelperCall ==
    [helper |-> "none", thrown |-> NoError, returned |-> FALSE,
     response |-> [net |-> "down", ok |-> FALSE, code |-> 0, json |-> FALSE,
                   session |-> NoSession,
                   body |-> [kind |-> "null", error |-> "none", message |-> "none",
                             text |-> "none"]]]

\* the server is not used, and no request helper is called
ServerQuiet ==
    /\ helperCall = NoHelperCall
    /\ backend = NewBackendSession
    /\ eudiploClient = 0
    /\ clients = 0
    /\ sdkCalls = <<>>
    /\ txCodes = <<>>
    /\ handlers = [r \in ReqIds |-> IdleHandler]
    /\ browser = QuietBrowser

Init ==
    /\ PollsQuiet
    /\ PageQuiet
    /\ ServerQuiet
    /\ pc = "idle"
    /\ now = 0
    /\ timeout \in Timeouts
    /\ interval \in Intervals
    /\ hasObserver \in BOOLEAN
    /\ startTime = 0
    /\ sleepStart = 0
    /\ outcome = Pending
    /\ settled = 0
    /\ fetchStarts = <<>>
    /\ fetched = <<>>
    /\ updates = <<>>
    /\ observerThrew = FALSE
    /\ sleeps = 0
    /\ instant = TRUE

\* the top of the while loop, run at time `start + ...`: either the next
\* getSessionStatus call is issued, or the loop is left and the function throws
LoopTop(start) ==
    IF LoopGuard(now, start, timeout)
    THEN /\ Len(fetchStarts) < MaxFetches
         /\ pc' = "fetching"
         /\ fetchStarts' = Append(fetchStarts, now)
         /\ UNCHANGED <<outcome, settled>>
    ELSE /\ pc' = "done"
         /\ outcome' = Rejected(TimedOutError)
         /\ settled' = settled + 1
         /\ UNCHANGED fetchStarts

\* waitForSession(sessionId, options) is called: lines 231-235
Invoke ==
    /\ pc = "idle"
    /\ startTime' = now
    /\ LoopTop(now)
    /\ UNCHANGED <<now, timeout, interval, hasObserver, sleepStart, fetched,
                   updates, observerThrew, sleeps, instant>>
    /\ UNCHANGED notPoll

\* the awaited getSessionStatus call returns a Session: lines 235-250
FetchOk ==
    /\ pc = "fetching"
    /\ \E resp \in OkResponses, throws \in BOOLEAN :
        LET session == getSessionStatusResult(resp)
            thrown == hasObserver /\ throws
        IN  /\ getSessionStatusError(resp) = NoError
            /\ fetched' = Append(fetched, [session |-> session, error |-> NoError])
            /\ instant' = (instant /\ now = fetchStarts[Len(fetchStarts)])
            /\ IF hasObserver
               THEN updates' = updates \o onUpdateCalls(session)
               ELSE UNCHANGED updates
            /\ observerThrew' = thrown
            /\ IF thrown
               THEN /\ pc' = "done"
                    /\ outcome' = Rejected(ObserverError)
                    /\ settled' = settled + 1
                    /\ UNCHANGED <<sleepStart, sleeps>>
               ELSE IF IsSuccess(session.status)
               THEN /\ pc' = "done"
                    /\ outcome' = Resolved(session)
                    /\ settled' = settled + 1
                    /\ UNCHANGED <<sleepStart, sleeps>>
               ELSE IF IsFailure(session.status)
               THEN /\ pc' = "done"
                    /\ outcome' = Rejected(SessionError(session.status))
                    /\ settled' = settled + 1
                    /\ UNCHANGED <<sleepStart, sleeps>>
               ELSE /\ pc' = "sleeping"
                    /\ sleepStart' = now
                    /\ sleeps' = sleeps + 1
                    /\ UNCHANGED <<outcome, settled>>
    /\ UNCHANGED <<now, timeout, interval, hasObserver, startTime, fetchStarts>>
    /\ UNCHANGED notPoll

\* mutant of the error path: the transport error is swallowed and the poll retries
FetchErrorRetried ==
    /\ pc = "fetching"
    /\ \E resp \in Responses :
        /\ getSessionStatusError(resp) # NoError
        /\ fetched' = Append(fetched, [session |-> NoSession, error |-> getSessionStatusError(resp)])
        /\ instant' = (instant /\ now = fetchStarts[Len(fetchStarts)])
        /\ pc' = "sleeping"
        /\ sleepStart' = now
        /\ sleeps' = sleeps + 1
    /\ UNCHANGED <<now, timeout, interval, hasObserver, startTime, outcome, settled,
                   fetchStarts, updates, observerThrew>>
    /\ UNCHANGED notPoll

\* the awaited getSessionStatus call throws: line 235
FetchError ==
    /\ pc = "fetching"
    /\ \E resp \in Responses :
        /\ getSessionStatusError(resp) # NoError
        /\ fetched' = Append(fetched, [session |-> NoSession, error |-> getSessionStatusError(resp)])
        /\ instant' = (instant /\ now = fetchStarts[Len(fetchStarts)])
        /\ pc' = "done"
        /\ outcome' = Rejected(getSessionStatusError(resp))
        /\ settled' = settled + 1
    /\ UNCHANGED <<now, timeout, interval, hasObserver, startTime, sleepStart, fetchStarts,
                   updates, observerThrew, sleeps>>
    /\ UNCHANGED notPoll

\* mutant of the timer: it fires without waiting for the delay
TimerDueAtOnce(t, armed, delay) == t >= armed

\* setTimeout(resolve, interval): the timer armed at `armed` may fire at time t
TimerDue(t, armed, delay) == t >= armed + delay

\* mutant of the loop: the deadline is counted again from the last fetched status
SleepDoneDeadlineReset ==
    /\ pc = "sleeping"
    /\ TimerDue(now, sleepStart, interval)
    /\ startTime' = sleepStart
    /\ LoopTop(sleepStart)
    /\ UNCHANGED <<now, timeout, interval, hasObserver, sleepStart,
                   fetched, updates, observerThrew, sleeps, instant>>
    /\ UNCHANGED notPoll

\* the setTimeout(resolve, interval) timer fires and the loop continues: lines 250, 234-235
SleepDone ==
    /\ pc = "sleeping"
    /\ TimerDue(now, sleepStart, interval)
    /\ LoopTop(startTime)
    /\ UNCHANGED <<now, timeout, interval, hasObserver, startTime, sleepStart,
                   fetched, updates, observerThrew, sleeps, instant>>
    /\ UNCHANGED notPoll

\* the wall clock advances while nothing of the poll is running
Tick ==
    /\ \/ pc = "idle" /\ now < MaxStart
       \/ pc \in {"fetching", "sleeping"} /\ now < MaxTime
    /\ now' = now + 1
    /\ UNCHANGED <<pc, timeout, interval, hasObserver, startTime, sleepStart, outcome,
                   settled, fetchStarts, fetched, updates, observerThrew, sleeps, instant>>
    /\ UNCHANGED notPoll

Next == Invoke \/ FetchOk \/ FetchError \/ SleepDone \/ Tick

Spec == Init /\ [][Next]_<<vars, notPoll>>

TypeOK ==
    /\ pc \in {"idle", "fetching", "sleeping", "done"}
    /\ now \in 0..MaxTime
    /\ settled \in 0..1
    /\ Len(fetchStarts) <= MaxFetches

\* ------------------------------------------------- the poll, with fairness
\* the wall clock advances; it goes on advancing while a timer is pending
TickLive ==
    /\ \/ pc = "idle" /\ now < MaxStart
       \/ pc \in {"fetching", "sleeping"} /\ now < MaxTime
       \/ pc = "sleeping" /\ ~TimerDue(now, sleepStart, interval)
    /\ now' = now + 1
    /\ UNCHANGED <<pc, timeout, interval, hasObserver, startTime, sleepStart, outcome,
                   settled, fetchStarts, fetched, updates, observerThrew, sleeps, instant>>
    /\ UNCHANGED notPoll

LiveNext == Invoke \/ FetchOk \/ FetchError \/ SleepDone \/ TickLive

\* every awaited fetch settles, every due timer fires, and time advances
LiveSpec ==
    /\ Init
    /\ [][LiveNext]_<<vars, notPoll>>
    /\ WF_<<vars, notPoll>>(FetchOk \/ FetchError)
    /\ WF_<<vars, notPoll>>(SleepDone)
    /\ WF_<<vars, notPoll>>(TickLive)

\* ------------------------------------------- several polls in one page
\* Two invocations of waitForSession (for the same session id) in one event
\* loop: each invocation has its own locals, kept in polls[p]; Date.now is
\* shared.  Each action is one synchronous run of one invocation.
MaxClock == 3
MaxPollFetches == 2

\* the options the two callers pass
PollOptions ==
    { [timeout |-> 2, interval |-> 1, hasObserver |-> TRUE],
      [timeout |-> 1, interval |-> 0, hasObserver |-> FALSE] }

\* what the status endpoint answers to the polls
PollResponses ==
    { r \in Responses : r.net = "down" }
    \cup { r \in OkResponses :
             r.session \in { [status |-> "pending", presentation |-> "none"],
                             [status |-> "completed", presentation |-> "Ana"],
                             [status |-> "expired", presentation |-> "none"] } }

\* mutants of the start of the deadline: a module-level variable written by
\* every invocation; a module-level variable written by the first invocation only
SetStartTimeShared(ps, p, t) == [q \in DOMAIN ps |-> [ps[q] EXCEPT !.startTime = t]]

SetStartTimeOnce(ps, p, t) ==
    IF \E q \in DOMAIN ps : ps[q].pc # "idle"
    THEN [ps EXCEPT ![p].startTime = ps[CHOOSE q \in DOMAIN ps : ps[q].pc # "idle"].startTime]
    ELSE [ps EXCEPT ![p].startTime = t]

\* const startTime = Date.now(): a local of the invocation
SetStartTime(ps, p, t) == [ps EXCEPT ![p].startTime = t]

PollsInit == PollsQuiet /\ PollQuiet /\ PageQuiet /\ ServerQuiet

\* the top of the while loop of invocation q at time t
PollLoopTop(q, t) ==
    IF LoopGuard(t, q.startTime, q.timeout)
    THEN [q EXCEPT !.pc = "fetching", !.fetchStarts = Append(@, t)]
    ELSE [q EXCEPT !.pc = "done", !.outcome = Rejected(TimedOutError),
                   !.settled = @ + 1, !.endedAt = t]

\* a caller invokes waitForSession(sessionId, options)
PollInvoke(p) ==
    /\ polls[p].pc = "idle"
    /\ \E o \in PollOptions :
        LET ps == SetStartTime(polls, p, clock)
            q == [ps[p] EXCEPT !.timeout = o.timeout, !.interval = o.interval,
                               !.hasObserver = o.hasObserver, !.invokedAt = clock,
                               !.afterDone = (\E r \in PollIds : polls[r].pc = "done")]
        IN  polls' = [ps EXCEPT ![p] = PollLoopTop(q, clock)]
    /\ UNCHANGED <<clock, notPolls>>

\* the fetch awaited by invocation p returns a Session
PollFetchOk(p) ==
    /\ polls[p].pc = "fetching"
    /\ \E resp \in PollResponses, throws \in BOOLEAN :
        LET q == polls[p]
            session == getSessionStatusResult(resp)
            thrown == q.hasObserver /\ throws
            seen == [q EXCEPT !.fetched = Append(@, [session |-> session, error |-> NoError]),
                              !.updates = IF q.hasObserver THEN @ \o onUpdateCalls(session) ELSE @,
                              !.observerThrew = thrown]
        IN  /\ getSessionStatusError(resp) = NoError
            /\ polls' = [polls EXCEPT ![p] =
                  IF thrown
                  THEN [seen EXCEPT !.pc = "done", !.outcome = Rejected(ObserverError),
                                    !.settled = @ + 1, !.endedAt = clock]
                  ELSE IF IsSuccess(session.status)
                  THEN [seen EXCEPT !.pc = "done", !.outcome = Resolved(session),
                                    !.settled = @ + 1, !.endedAt = clock]
                  ELSE IF IsFailure(session.status)
                  THEN [seen EXCEPT !.pc = "done",
                                    !.outcome = Rejected(SessionError(session.status)),
                                    !.settled = @ + 1, !.endedAt = clock]
                  ELSE [seen EXCEPT !.pc = "sleeping", !.sleepStart = clock]]
    /\ UNCHANGED <<clock, notPolls>>

\* the fetch awaited by invocation p throws
PollFetchError(p) ==
    /\ polls[p].pc = "fetching"
    /\ \E resp \in PollResponses :
        /\ getSessionStatusError(resp) # NoError
        /\ polls' = [polls EXCEPT ![p] =
              [@ EXCEPT !.fetched = Append(@, [session |-> NoSession,
                                               error |-> getSessionStatusError(resp)]),
                        !.pc = "done",
                        !.outcome = Rejected(getSessionStatusError(resp)),
                        !.settled = @ + 1, !.endedAt = clock]]
    /\ UNCHANGED <<clock, notPolls>>

\* the timer of invocation p fires and its loop continues
PollSleepDone(p) ==
    /\ polls[p].pc = "sleeping"
    /\ TimerDue(clock, polls[p].sleepStart, polls[p].interval)
    /\ LoopGuard(clock, polls[p].startTime, polls[p].timeout)
          => Len(polls[p].fetchStarts) < MaxPollFetches
    /\ polls' = [polls EXCEPT ![p] = PollLoopTop(@, clock)]
    /\ UNCHANGED <<clock, notPolls>>

\* the wall clock advances between two runs
ClockTick ==
    /\ clock < MaxClock
    /\ clock' = clock + 1
    /\ UNCHANGED <<polls, notPolls>>

PollsNext ==
    \/ \E p \in PollIds : PollInvoke(p)
    \/ \E p \in PollIds : PollFetchOk(p)
    \/ \E p \in PollIds : PollFetchError(p)
    \/ \E p \in PollIds : PollSleepDone(p)
    \/ ClockTick

PollsSpec == PollsInit /\ [][PollsNext]_<<pvars, notPolls>>

\* ------------------------------------------------------------ properties
Attempts == Len(fetchStarts)

Completed == Len(fetched)

IsTerminal(status) == status \in {"completed", "fetched", "failed", "expired"}

\* the i-th getSessionStatus call returned a Session (it did not throw)
Returned(i) == fetched[i].error = NoError

LastReturned == Completed > 0 /\ Returned(Completed)

LastSession == fetched[Completed].session

\* every call made so far returned, and returned a non-terminal status
AllNonTerminal ==
    \A i \in 1..Completed : Returned(i) /\ ~IsTerminal(fetched[i].session.status)

Elapsed == now - startTime

\* C1: when the last fetch returned `completed` or `fetched` before the deadline,
\* the promise has been resolved exactly once with the Session that fetch
\* returned and no further fetch was issued.
C1_SuccessResolves ==
    (LastReturned /\ IsSuccess(LastSession.status) /\ Elapsed < timeout)
        => /\ pc = "done"
           /\ settled = 1
           /\ outcome = Resolved(LastSession)
           /\ Attempts = Completed

\* C2: when the last fetch returned `failed` or `expired`, the promise has been
\* rejected with the error carrying that status and no further fetch was issued.
C2_FailureRejects ==
    (LastReturned /\ IsFailure(LastSession.status))
        => /\ pc = "done"
           /\ outcome = Rejected(SessionError(LastSession.status))
           /\ Attempts = Completed

\* C3: a finished poll whose fetches all returned non-terminal statuses and whose
\* elapsed time has reached the timeout was rejected with 'Session timed out'.
C3_TimesOut ==
    (pc = "done" /\ AllNonTerminal /\ Elapsed >= timeout)
        => outcome = Rejected(TimedOutError)

\* C4: a fetch that returned a terminal status is the last fetch the poll
\* issued, whatever is left of the timeout budget.
C4_NoFetchAfterTerminal ==
    \A i \in 1..Completed :
        (Returned(i) /\ IsTerminal(fetched[i].session.status))
            => (i = Attempts /\ pc = "done" /\ sleeps = i - 1)

C4_Witness ==
    /\ Completed = 2
    /\ LastReturned
    /\ IsTerminal(LastSession.status)
    /\ Elapsed + 1 < timeout

\* C5: the sequence of onUpdate arguments is exactly the sequence of Sessions
\* returned by the completed fetches, in fetch order, the terminal one included
\* once the promise is settled; without an observer no call is made.
C5_ObserverSeesEveryFetch ==
    /\ hasObserver =>
         /\ Len(updates) = Cardinality({i \in 1..Completed : Returned(i)})
         /\ \A i \in 1..Len(updates) : Returned(i) /\ updates[i] = fetched[i].session
    /\ ~hasObserver => updates = <<>>

C5_Witness ==
    /\ hasObserver
    /\ pc = "done"
    /\ Len(updates) = 3
    /\ updates[1] # updates[2]
    /\ IsTerminal(updates[3].status)

\* C6: the error of a throwing observer is never the poll's outcome, and a poll
\* whose observer threw ends as the fetched statuses say: success after
\* `completed`/`fetched`, SessionFailed after `failed`/`expired`, and it goes on
\* polling after a non-terminal status.
C6_ObserverIsolated ==
    /\ outcome.error # ObserverError
    /\ (observerThrew /\ IsSuccess(LastSession.status)) => outcome = Resolved(LastSession)
    /\ (observerThrew /\ IsFailure(LastSession.status))
          => outcome = Rejected(SessionError(LastSession.status))
    /\ (observerThrew /\ ~IsTerminal(LastSession.status)) => pc = "sleeping"

\* C7: a fetch that threw is the last fetch the poll issued; the promise is
\* rejected with exactly the error it threw, no sleep follows it and onUpdate
\* was called for the earlier fetches only.
C7_TransportErrorEndsPoll ==
    \A i \in 1..Completed :
        ~Returned(i)
            => /\ i = Attempts
               /\ pc = "done"
               /\ settled = 1
               /\ outcome = Rejected(fetched[i].error)
               /\ sleeps = i - 1
               /\ Len(updates) = (IF hasObserver THEN i - 1 ELSE 0)

C7_Witness ==
    /\ Completed = 2
    /\ ~Returned(2)
    /\ hasObserver
    /\ fetched[2].error.message = "Request failed with status 500"

\* C8 as stated: a finished poll with timeout = 0 made exactly one fetch attempt.
C8_ZeroTimeoutOneFetch ==
    (timeout = 0 /\ pc = "done") => Attempts = 1

\* C8 as amended: a poll invoked with timeout = 0 makes no fetch attempt and is
\* rejected with 'Session timed out' at once.
C8_ZeroTimeoutNoFetch ==
    (timeout = 0 /\ pc # "idle")
        => /\ pc = "done"
           /\ Attempts = 0
           /\ updates = <<>>
           /\ outcome = Rejected(TimedOutError)

C8_Witness == timeout = 0 /\ pc = "done" /\ startTime = 1

\* C9: every fetch was issued at a time when the elapsed time since the
\* invocation was less than the timeout.
C9_NoFetchAtOrAfterDeadline ==
    \A i \in 1..Attempts : fetchStarts[i] - startTime < timeout

C9_Witness ==
    /\ pc = "done"
    /\ outcome = Rejected(TimedOutError)
    /\ Attempts = 2
    /\ Elapsed = timeout
    /\ startTime = 1

\* C10: a fetch that completes at or after the deadline is honoured: success
\* after `completed`/`fetched`, SessionFailed after `failed`/`expired`.
C10_StraddlingFetchHonoured ==
    (LastReturned /\ Elapsed >= timeout /\ fetchStarts[Attempts] - startTime < timeout)
        => /\ IsSuccess(LastSession.status) => outcome = Resolved(LastSession)
           /\ IsFailure(LastSession.status)
                 => outcome = Rejected(SessionError(LastSession.status))

\* C11: the first fetch is issued at the invocation with no sleep before it;
\* between two fetches, and between a non-terminal fetch and the final deadline
\* check, lies exactly one sleep that lasted at least `interval`; no sleep is
\* armed after a fetch that returned a terminal status.
C11_SleepOnlyBetweenAttempts ==
    /\ Attempts >= 1 => fetchStarts[1] = startTime
    /\ pc = "fetching" => sleeps = Attempts - 1
    /\ pc = "sleeping" => sleeps = Attempts
    /\ sleeps \in {Attempts - 1, Attempts} \/ Attempts = 0
    /\ (Attempts >= 2 /\ sleeps = Attempts - 1)
          => /\ fetchStarts[Attempts] >= sleepStart + interval
             /\ sleepStart >= fetchStarts[Attempts - 1]
    /\ (Attempts >= 1 /\ sleeps = Attempts /\ pc = "done") => now >= sleepStart + interval
    /\ \A i \in 1..Completed :
          (Returned(i) /\ IsTerminal(fetched[i].session.status)) => sleeps < i

C11_Witness ==
    /\ interval = 2
    /\ Attempts = 2
    /\ fetchStarts[2] = fetchStarts[1] + interval
    /\ LastReturned
    /\ Completed = 2
    /\ IsTerminal(LastSession.status)

\* C12: after a fetch that returned a status outside the enumeration the
\* observer has been called with it, a sleep has been armed and the poll has
\* not failed on it: it is still running, or it ended at a later deadline check.
C12_UnknownStatusKeepsPolling ==
    \A i \in 1..Completed :
        (Returned(i) /\ fetched[i].session.status \in UnknownStatuses)
            => /\ hasObserver => (Len(updates) >= i /\ updates[i] = fetched[i].session)
               /\ sleeps >= i
               /\ i = Completed => outcome \in {Pending, Rejected(TimedOutError)}

\* C13: a resolved promise carries the Session returned by the last fetch, and
\* the status of that Session is `completed` or `fetched`.
C13_SuccessOnlyOnCompleted ==
    outcome.kind = "resolved"
        => /\ LastReturned
           /\ LastSession.status \in {"completed", "fetched"}
           /\ outcome.session = LastSession
           /\ Attempts = Completed

C13_Witness ==
    /\ outcome.kind = "resolved"
    /\ Completed = 3
    /\ fetched[1].session.status = "queued"
    /\ fetched[2].session.status = "processing"

\* C14: the deadline is counted from the invocation (the instant of the first
\* fetch) and never moves: startTime stays the time of the first fetch and every
\* fetch is started before that time plus the timeout, whatever was fetched.
C14_DeadlineNeverReset ==
    Attempts >= 1
        => /\ startTime = fetchStarts[1]
           /\ \A i \in 1..Attempts : fetchStarts[i] < fetchStarts[1] + timeout

C14_Witness ==
    /\ hasObserver
    /\ Completed = 2
    /\ fetched[1].session.status = "pending"
    /\ fetched[2].session.status = "processing"
    /\ pc = "done"
    /\ outcome = Rejected(TimedOutError)
    /\ sleepStart > startTime

\* C15: the error of a poll ended by a transport error differs from the error
\* of a timed-out poll and from the error of a poll ended by `failed` or
\* `expired`; the latter two differ from each other.
C15_FailuresDistinguishable ==
    /\ (Completed > 0 /\ ~Returned(Completed))
          => outcome.error \notin {TimedOutError, SessionError("failed"), SessionError("expired")}
    /\ (LastReturned /\ LastSession.status \in {"failed", "expired"} /\ ~observerThrew)
          => outcome.error # TimedOutError

\* an all-pending poll that ended at the deadline check
TimedOutPoll ==
    /\ pc = "done"
    /\ AllNonTerminal
    /\ ~observerThrew
    /\ timeout > 0
    /\ interval > 0

\* ceil(timeout / interval)
CeilRatio == (timeout + interval - 1) \div interval

\* every sleep of a timed-out poll with instantaneous fetches ended exactly
\* `interval` after it began: the poll lasted one interval per attempt
ExactSleeps == now - fetchStarts[1] = Attempts * interval

\* |Attempts - timeout / interval| <= 1
WithinOneOfRatio ==
    /\ Attempts * interval - timeout <= interval
    /\ timeout - Attempts * interval <= interval

\* C16 as stated: a timed-out all-pending poll made at most ceil(timeout /
\* interval) attempts, and within 1 of timeout / interval when its fetches were
\* instantaneous.
C16_AttemptsAboutRatio ==
    TimedOutPoll
        => /\ Attempts <= CeilRatio
           /\ instant => WithinOneOfRatio

\* C16 as amended: the same, the lower bound only when moreover every sleep
\* lasted exactly `interval`.
C16_AttemptsAboutRatioExactSleeps ==
    TimedOutPoll
        => /\ Attempts <= CeilRatio
           /\ (instant /\ ExactSleeps) => (Attempts = CeilRatio /\ WithinOneOfRatio)

C16_Witness ==
    /\ TimedOutPoll
    /\ instant
    /\ ExactSleeps
    /\ timeout = 3
    /\ interval = 2
    /\ Attempts = 2

\* the outcome an invocation has when its own fetches and its own observer are
\* all that decides it
AloneOutcome(q) ==
    LET n == Len(q.fetched)
    IN  IF q.pc # "done" THEN Pending
        ELSE IF n > 0 /\ q.fetched[n].error # NoError THEN Rejected(q.fetched[n].error)
        ELSE IF q.observerThrew THEN Rejected(ObserverError)
        ELSE IF n > 0 /\ q.fetched[n].session.status \in {"completed", "fetched"}
             THEN Resolved(q.fetched[n].session)
        ELSE IF n > 0 /\ q.fetched[n].session.status \in {"failed", "expired"}
             THEN Rejected(SessionError(q.fetched[n].session.status))
        ELSE Rejected(TimedOutError)

\* the observer calls an invocation makes when its own fetches decide them
AloneUpdates(q) ==
    IF q.hasObserver
    THEN [i \in 1..Cardinality({j \in 1..Len(q.fetched) : q.fetched[j].error = NoError})
            |-> q.fetched[i].session]
    ELSE <<>>

\* the fetches of an invocation are those its own deadline and timings allow:
\* the first at the invocation, all before invocation + timeout, and a poll
\* that timed out did so at or after that instant
AloneFetches(q) ==
    /\ Len(q.fetchStarts) - Len(q.fetched) = (IF q.pc = "fetching" THEN 1 ELSE 0)
    /\ Len(q.fetchStarts) >= 1 => q.fetchStarts[1] = q.invokedAt
    /\ \A i \in 1..Len(q.fetchStarts) : q.fetchStarts[i] - q.invokedAt < q.timeout
    /\ (q.pc = "done" /\ q.outcome = Rejected(TimedOutError)
          /\ (Len(q.fetched) = 0 \/ q.fetched[Len(q.fetched)].error = NoError))
          => q.endedAt - q.invokedAt >= q.timeout

\* C17: under every interleaving of two invocations, the outcome, the fetches
\* and the observer calls of each are those its own fetched statuses, timings
\* and observer decide.
C17_PollsIndependent ==
    \A p \in PollIds :
        /\ polls[p].outcome = AloneOutcome(polls[p])
        /\ polls[p].updates = AloneUpdates(polls[p])
        /\ AloneFetches(polls[p])
        /\ polls[p].settled = (IF polls[p].pc = "done" THEN 1 ELSE 0)

C17_Witness ==
    /\ polls[1].pc = "done" /\ polls[2].pc = "done"
    /\ polls[1].invokedAt < polls[2].invokedAt
    /\ polls[2].invokedAt < polls[1].endedAt
    /\ polls[1].endedAt < polls[2].endedAt
    /\ polls[1].outcome = Rejected(TimedOutError)
    /\ Len(polls[1].fetched) = 2
    /\ polls[2].outcome.kind = "resolved"
    /\ Len(polls[2].fetched) = 2

\* C18: an invocation made after an earlier one has ended counts its deadline
\* from its own invocation, fetches only within it, ends as the statuses it
\* fetched itself decide, and hands on every Session exactly as fetched.
C18_SecondPollIsFresh ==
    \A p \in PollIds :
        (polls[p].afterDone /\ polls[p].pc # "idle")
            => /\ polls[p].startTime = polls[p].invokedAt
               /\ \A i \in 1..Len(polls[p].fetchStarts) :
                     /\ polls[p].fetchStarts[i] >= polls[p].invokedAt
                     /\ polls[p].fetchStarts[i] < polls[p].invokedAt + polls[p].timeout
               /\ polls[p].outcome = AloneOutcome(polls[p])
               /\ polls[p].hasObserver =>
                     \A i \in 1..Len(polls[p].updates) :
                         polls[p].updates[i] = polls[p].fetched[i].session
               /\ polls[p].outcome.kind = "resolved" =>
                     polls[p].outcome.session = polls[p].fetched[Len(polls[p].fetched)].session

C18_Witness ==
    \E p \in PollIds, r \in PollIds :
        /\ polls[p].afterDone
        /\ polls[r].pc = "done"
        /\ polls[r].outcome = Rejected(TimedOutError)
        /\ polls[r].endedAt <= polls[p].invokedAt
        /\ polls[r].invokedAt < polls[p].invokedAt
        /\ polls[p].outcome = Resolved([status |-> "completed", presentation |-> "Ana"])
        /\ polls[p].hasObserver
        /\ Len(polls[p].updates) = 2

\* the four outcomes of a poll: success, SessionFailed, SessionTimedOut and the
\* error of a fetch that threw
OneOfFourOutcomes ==
    \/ outcome.kind = "resolved"
    \/ outcome \in {Rejected(SessionError("failed")), Rejected(SessionError("expired"))}
    \/ outcome = Rejected(TimedOutError)
    \/ Completed > 0 /\ ~Returned(Completed) /\ outcome = Rejected(fetched[Completed].error)

\* C19: a poll with interval > 0 whose fetches return and whose clock advances
\* ends, and a poll that has ended has settled its promise exactly once, with
\* one of the four outcomes.
C19_TerminatesWithOneOutcome ==
    /\ [](settled <= 1)
    /\ [](pc = "done" => (settled = 1 /\ OneOfFourOutcomes))
    /\ ((pc # "idle" /\ interval > 0) ~> (pc = "done"))

\* ------------------------------------------- the page of a front end
\* An async handler runs synchronously up to its next await, so each action
\* is one such run of init, resumeSession, the click handler or a timer
\* callback.  The poll a handler awaits is waitForSession with its default
\* options: the page sees it through the observer calls it makes and the way
\* it ends.
MaxClicks == 2
MaxPageFetches == 2

\* the status texts of each front end
Texts(a) ==
    CASE a = "job-portal" ->
           [resume |-> "Completing verification...", scan |-> "Waiting for you to scan...",
            pending |-> "Waiting for wallet response...",
            processing |-> "Processing verification...",
            success |-> "Verification complete!",
            errorPrefix |-> "Something went wrong: ", noMessage |-> "Unknown error"]
      [] a = "sports-shop" ->
           [resume |-> "Completing verification...", scan |-> "Waiting for you to scan...",
            pending |-> "Waiting for wallet response...",
            processing |-> "Processing verification...",
            success |-> "Membership verified!",
            errorPrefix |-> "Something went wrong: ", noMessage |-> "Unknown error"]
      [] a = "bank-onboarding" ->
           [resume |-> "Completing verification...", scan |-> "Use your EUDI Wallet to verify",
            pending |-> "Waiting for wallet response...",
            processing |-> "Verifying your identity...",
            success |-> "n/a",
            errorPrefix |-> "Something went wrong: ", noMessage |-> "Unknown error"]
      [] a = "sim-activation" ->
           [resume |-> "Completing verification...",
            scan |-> "Scan the QR code with your EUDI Wallet",
            pending |-> "Waiting for wallet response...",
            processing |-> "Verifying identity...",
            success |-> "n/a",
            errorPrefix |-> "Error: ", noMessage |-> "Unknown error"]
      [] a = "loyalty-card" ->
           [resume |-> "n/a", scan |-> "Scan the QR code with your EUDI Wallet",
            pending |-> "Waiting for wallet to accept...",
            processing |-> "Issuing membership card...",
            success |-> "n/a",
            errorPrefix |-> "Error: ", noMessage |-> "An error occurred"]
      [] a = "university-diploma" ->
           [resume |-> "n/a", scan |-> "Scan the QR code with your EUDI Wallet",
            pending |-> "Waiting for wallet to authenticate...",
            processing |-> "Issuing credential...",
            success |-> "n/a",
            errorPrefix |-> "Error: ", noMessage |-> "An error occurred"]

\* the statuses verifyWithDcApi reports, in order
DcApiStatuses == <<"Starting verification...", "Opening wallet...", "Processing verification...">>

\* the text handleDcApiVerification sets before it calls verifyWithDcApi
DcApiOpening == "Opening wallet..."

\* the text handleRegister(true) sets when the offer carries a transaction code
ScanWithPin == "Scan QR code and enter the PIN in your wallet"

\* the text handleGetAnother / handleRegisterAnother resets the status to
ResetText == "Waiting for wallet to accept..."

\* errors createVerificationRequest / createIssuanceOffer throw
CreateErrors ==
    {NetworkError, [name |-> "Error", message |-> "Unknown use case: job-portal"]}

\* errors getSessionStatus throws, which waitForSession hands on
TransportErrors == {getSessionStatusError(r) : r \in Responses} \ {NoError}

\* errors of the three steps of verifyWithDcApi
DcApiErrors ==
    {NetworkError, [name |-> "Error", message |-> "No credential returned from wallet"]}

\* error instanceof Error
IsErrorInstance(error) == error.name \in {"Error", "TypeError", "SyntaxError"}

\* mutant of showVerification: the start section is left on the page
showVerificationKeepsStart(a, d) == [d EXCEPT !.visible = @ \cup {"verification"}]

\* the verification section is shown: class toggles in the badge front ends,
\* showSection(verificationSection) in the others
showVerification(a, d) ==
    [d EXCEPT !.visible = IF a \in BadgeApps
                          THEN (@ \ {"start", "info"}) \cup {"verification"}
                          ELSE {"verification"}]

\* updateStatus(status, message) of the badge front ends; the other front
\* ends assign statusText.textContent only
updateStatus(a, d, status, message) ==
    IF a \in BadgeApps
    THEN [d EXCEPT !.badge = status, !.text = message]
    ELSE [d EXCEPT !.text = message]

\* the onUpdate callback every front end passes to waitForSession
onUpdate(a, d, session) ==
    IF session.status = "pending" THEN updateStatus(a, d, "waiting", Texts(a).pending)
    ELSE IF session.status = "processing"
         THEN updateStatus(a, d, "processing", Texts(a).processing)
         ELSE d

\* mutant of handleError: logs the error and leaves the page as it is
handleErrorSilent(a, d, error) == d

\* handleError(error): what the page shows after it
handleError(a, d, error) ==
    LET message == IF IsErrorInstance(error) THEN error.message ELSE Texts(a).noMessage
        text == Texts(a).errorPrefix \o message
    IN  IF a \in VerificationApps
        THEN [updateStatus(a, showVerification(a, d), "error", text)
                EXCEPT !.icon = "error", !.link = FALSE,
                       !.errorStyle = IF a \in BadgeApps THEN @ ELSE TRUE]
        ELSE [d EXCEPT !.text = text, !.errorStyle = TRUE]

\* showSuccess(session) up to its setTimeout, and showSuccessFromDcApi(result)
showSuccess(a, d) ==
    IF a \in BadgeApps
    THEN [updateStatus(a, d, "success", Texts(a).success) EXCEPT !.resultPanel = TRUE]
    ELSE [d EXCEPT !.visible = {"success"}]

\* the part of resumeSession before its try block
resumeShown(a, d) ==
    [updateStatus(a, showVerification(a, d), "processing", Texts(a).resume)
        EXCEPT !.icon = "processing", !.link = FALSE]

\* the part of handleDcApiVerification before its await, and the first
\* status verifyWithDcApi reports before its own first await
dcApiShown(a, d) ==
    LET opened == [updateStatus(a, showVerification(a, d), "processing", DcApiOpening)
                      EXCEPT !.icon = "processing", !.link = FALSE]
    IN  updateStatus(a, opened, "processing", DcApiStatuses[1])

\* the part of the QR-code / issuance handler between the created request
\* and the call of waitForSession
qrShown(a, d, withPin) ==
    LET section == IF a \in VerificationApps
                   THEN showVerification(a, d)
                   ELSE [d EXCEPT !.visible = {"verification"}]
        qr == [section EXCEPT !.icon = "qr", !.link = TRUE]
    IN  updateStatus(a, qr, "waiting", IF withPin THEN ScanWithPin ELSE Texts(a).scan)

\* getSessionFromUrl(): the `session` parameter of the URL, or null
getSessionFromUrl(u) == IF u THEN UrlSession ELSE "none"

\* mutant of clearSessionFromUrl: the URL is left as it is
clearSessionFromUrlKeeps(u) == u

\* clearSessionFromUrl(): url.search = ''
clearSessionFromUrl(u) == FALSE

\* the action button can be clicked: the start section that holds it is shown
ButtonReachable == "start" \in display.visible

\* a page is opened, with or without a session parameter in its URL
PageInit ==
    /\ PollsQuiet
    /\ PollQuiet
    /\ ServerQuiet
    /\ app \in Apps
    /\ loaded = FALSE
    /\ url \in BOOLEAN
    /\ button = EnabledButton
    /\ display = InitialDisplay(app)
    /\ flows = [f \in Flows |-> IdleFlow]
    /\ timers = 0
    /\ clicks = 0

\* init(): the verification front ends call resumeSession when the URL has a
\* session parameter; resumeSession runs up to its await of waitForSession
init ==
    /\ ~loaded
    /\ loaded' = TRUE
    /\ IF app \in VerificationApps /\ getSessionFromUrl(url) # "none"
       THEN /\ display' = resumeShown(app, display)
            /\ flows' = [flows EXCEPT !["resume"] =
                            [IdleFlow EXCEPT !.pc = "polling",
                                             !.sessionId = getSessionFromUrl(url)]]
       ELSE UNCHANGED <<display, flows>>
    /\ UNCHANGED <<app, url, button, timers, clicks>>
    /\ UNCHANGED notPage

\* the click handler (handleVerify, handleApplyDiscount, handleStart,
\* handleActivate, handleRegister, handleGetCredential) up to its first await:
\* a disabled button receives no click
Click(dcApi) ==
    /\ loaded
    /\ ButtonReachable
    /\ ~button.disabled
    /\ clicks < MaxClicks
    /\ dcApi => app \in VerificationApps
    /\ clicks' = clicks + 1
    /\ button' = BusyButton
    /\ IF dcApi
       THEN /\ display' = dcApiShown(app, display)
            /\ flows' = [flows EXCEPT !["click"] =
                            [IdleFlow EXCEPT !.pc = "dc-start",
                                 !.trace = <<DcApiStatuses[1], "startDcApiVerification">>]]
       ELSE /\ flows' = [flows EXCEPT !["click"] =
                            [IdleFlow EXCEPT !.pc = "creating", !.created = 1]]
            /\ UNCHANGED display
    /\ UNCHANGED <<app, loaded, url, timers>>
    /\ UNCHANGED notPage

\* mutant of ButtonAfter: the button is re-enabled in the catch block only
ButtonAfterErrorOnly(f, failed) ==
    IF f = "click" /\ failed THEN EnabledButton ELSE button

\* the button after the click handler has ended: the finally block of the
\* verification front ends re-enables it after every outcome; the issuance
\* front ends re-enable it in handleError only
ButtonAfter(f, failed) ==
    IF f = "click" /\ (app \in VerificationApps \/ failed) THEN EnabledButton ELSE button

\* createVerificationRequest / createIssuanceOffer returned: the QR code is
\* shown and waitForSession is called
RequestCreated(withPin) ==
    /\ flows["click"].pc = "creating"
    /\ withPin => app = "loyalty-card"
    /\ display' = qrShown(app, display, withPin)
    /\ flows' = [flows EXCEPT !["click"] = [@ EXCEPT !.pc = "polling",
                                                      !.sessionId = NewSession]]
    /\ UNCHANGED <<app, loaded, url, button, timers, clicks>>
    /\ UNCHANGED notPage

\* createVerificationRequest / createIssuanceOffer threw: catch, finally
RequestFails(error) ==
    /\ flows["click"].pc = "creating"
    /\ display' = handleError(app, display, error)
    /\ button' = ButtonAfter("click", TRUE)
    /\ flows' = [flows EXCEPT !["click"].pc = "done"]
    /\ UNCHANGED <<app, loaded, url, timers, clicks>>
    /\ UNCHANGED notPage

\* waitForSession of handler f threw `error` when the page showed d: the
\* catch block (clearSessionFromUrl in resumeSession, then handleError) and
\* the finally block
PollFails(f, d, error) ==
    /\ url' = IF f = "resume" THEN clearSessionFromUrl(url) ELSE url
    /\ display' = handleError(app, d, error)
    /\ button' = ButtonAfter(f, TRUE)
    /\ flows' = [flows EXCEPT ![f] = [@ EXCEPT !.pc = "done", !.failure = error,
                        !.shown = display',
                        !.urlShown = IF url' THEN "with-session" ELSE "without-session"]]
    /\ UNCHANGED <<app, loaded, timers, clicks>>

\* waitForSession of handler f returned when the page showed d:
\* clearSessionFromUrl in resumeSession, showSuccess, the finally block
PollSucceeds(f, d) ==
    /\ url' = IF f = "resume" THEN clearSessionFromUrl(url) ELSE url
    /\ display' = showSuccess(app, d)
    /\ timers' = IF app \in BadgeApps THEN timers + 1 ELSE timers
    /\ button' = ButtonAfter(f, FALSE)
    /\ flows' = [flows EXCEPT ![f] = [@ EXCEPT !.pc = "done", !.succeeded = TRUE,
                        !.shown = display',
                        !.urlShown = IF url' THEN "with-session" ELSE "without-session"]]
    /\ UNCHANGED <<app, loaded, clicks>>

\* a fetch of the poll of handler f returned `session`: the observer is
\* called, then the poll returns, throws or sleeps
PollFetched(f, session) ==
    /\ flows[f].pc = "polling"
    /\ flows[f].fetches < MaxPageFetches
    /\ LET seen == onUpdate(app, display, session)
       IN  IF IsSuccess(session.status) THEN PollSucceeds(f, seen)
           ELSE IF IsFailure(session.status)
                THEN /\ PollFails(f, seen, SessionError(session.status))
                     /\ UNCHANGED timers
                ELSE /\ display' = seen
                     /\ flows' = [flows EXCEPT ![f].fetches = @ + 1]
                     /\ UNCHANGED <<app, loaded, url, button, timers, clicks>>
    /\ UNCHANGED notPage

\* a fetch of the poll of handler f threw
PollFetchFails(f, error) ==
    /\ flows[f].pc = "polling"
    /\ PollFails(f, display, error)
    /\ UNCHANGED timers
    /\ UNCHANGED notPage

\* the poll of handler f ran out of time: with the default timeout this
\* happens at the loop test after a sleep
PollTimesOut(f) ==
    /\ flows[f].pc = "polling"
    /\ flows[f].fetches > 0
    /\ PollFails(f, display, TimedOutError)
    /\ UNCHANGED timers
    /\ UNCHANGED notPage

\* the errors of callDcApi
DcApiUnavailableError ==
    [name |-> "Error", message |-> "Digital Credentials API is not available in this browser"]

NoCredentialError == [name |-> "Error", message |-> "No credential returned from wallet"]

\* what navigator.credentials.get resolves to: null, an object without
\* `data`, a DigitalCredential with `data`
Credentials == {"null", "no-data", "data"}

\* mutant of the availability test: navigator.credentials.get is called anyway
callDcApiStartUnchecked(available) == [get |-> 1, error |-> NoError]

\* callDcApi up to its await: the availability test, then the browser call
callDcApiStart(available) ==
    IF ~available THEN [get |-> 0, error |-> DcApiUnavailableError]
    ELSE [get |-> 1, error |-> NoError]

\* callDcApi after its await: !credential || !('data' in credential)
callDcApiResult(credential) ==
    IF credential \in {"null", "no-data"} THEN NoCredentialError ELSE NoError

\* startDcApiVerification returned: 'Opening wallet...' is reported and
\* callDcApi runs up to its await, with isDcApiAvailable() = available
DcApiWalletCalled(available) ==
    LET call == callDcApiStart(available)
        opened == updateStatus(app, display, "processing", DcApiStatuses[2])
        called == [flows["click"] EXCEPT
                      !.trace = @ \o <<DcApiStatuses[2], "callDcApi">>,
                      !.dcApi = IF available THEN "available" ELSE "unavailable",
                      !.gets = @ + call.get]
    IN  IF call.error = NoError
        THEN /\ display' = opened
             /\ flows' = [flows EXCEPT !["click"] = [called EXCEPT !.pc = "dc-wallet"]]
             /\ UNCHANGED <<button, timers>>
        ELSE /\ display' = handleError(app, opened, call.error)
             /\ button' = ButtonAfter("click", TRUE)
             /\ flows' = [flows EXCEPT !["click"] =
                             [called EXCEPT !.pc = "done", !.dcError = call.error,
                                            !.trace = Append(@, "failed")]]
             /\ UNCHANGED timers

\* startDcApiVerification returned in a browser without the Digital
\* Credentials API
DcApiUnavailable ==
    /\ flows["click"].pc = "dc-start"
    /\ DcApiWalletCalled(FALSE)
    /\ UNCHANGED <<app, loaded, url, clicks>>
    /\ UNCHANGED notPage

\* navigator.credentials.get returned nothing callDcApi can hand on
DcApiNoCredential(credential) ==
    /\ flows["click"].pc = "dc-wallet"
    /\ callDcApiResult(credential) # NoError
    /\ display' = handleError(app, display, callDcApiResult(credential))
    /\ button' = ButtonAfter("click", TRUE)
    /\ flows' = [flows EXCEPT !["click"] =
                    [@ EXCEPT !.pc = "done", !.credential = credential,
                              !.dcError = callDcApiResult(credential),
                              !.trace = Append(@, "failed")]]
    /\ UNCHANGED <<app, loaded, url, timers, clicks>>
    /\ UNCHANGED notPage

\* a step of verifyWithDcApi returned: the next status is reported, or the
\* result is shown and the finally block runs
DcApiStepDone ==
    /\ flows["click"].pc \in {"dc-start", "dc-wallet", "dc-complete"}
    /\ IF flows["click"].pc = "dc-complete"
       THEN /\ display' = showSuccess(app, display)
            /\ timers' = IF app \in BadgeApps THEN timers + 1 ELSE timers
            /\ button' = ButtonAfter("click", FALSE)
            /\ flows' = [flows EXCEPT !["click"] = [@ EXCEPT !.pc = "done", !.succeeded = TRUE,
                                                             !.trace = Append(@, "result")]]
       ELSE IF flows["click"].pc = "dc-start"
            THEN DcApiWalletCalled(TRUE)
            ELSE /\ callDcApiResult("data") = NoError
                 /\ display' = updateStatus(app, display, "processing", DcApiStatuses[3])
                 /\ flows' = [flows EXCEPT !["click"] =
                                 [@ EXCEPT !.pc = "dc-complete", !.credential = "data",
                                           !.trace = @ \o <<DcApiStatuses[3],
                                                            "completeDcApiVerification">>]]
                 /\ UNCHANGED <<button, timers>>
    /\ UNCHANGED <<app, loaded, url, clicks>>
    /\ UNCHANGED notPage

\* mutant of a failing step: the error is caught inside verifyWithDcApi,
\* which goes on with its next status and step
DcApiStepFailsContinues(error) ==
    /\ flows["click"].pc \in {"dc-start", "dc-wallet"}
    /\ display' = updateStatus(app, display, "processing",
                      DcApiStatuses[IF flows["click"].pc = "dc-start" THEN 2 ELSE 3])
    /\ flows' = [flows EXCEPT !["click"] =
                    IF flows["click"].pc = "dc-start"
                    THEN [@ EXCEPT !.pc = "dc-wallet",
                                   !.trace = @ \o <<"failed", DcApiStatuses[2], "callDcApi">>]
                    ELSE [@ EXCEPT !.pc = "dc-complete",
                                   !.trace = @ \o <<"failed", DcApiStatuses[3],
                                                    "completeDcApiVerification">>]]
    /\ UNCHANGED <<app, loaded, url, button, timers, clicks>>
    /\ UNCHANGED notPage

\* a step of verifyWithDcApi threw: catch, finally
DcApiStepFails(error) ==
    /\ flows["click"].pc \in {"dc-start", "dc-wallet", "dc-complete"}
    /\ display' = handleError(app, display, error)
    /\ button' = ButtonAfter("click", TRUE)
    /\ flows' = [flows EXCEPT !["click"] = [@ EXCEPT !.pc = "done",
                                                      !.trace = Append(@, "failed")]]
    /\ UNCHANGED <<app, loaded, url, timers, clicks>>
    /\ UNCHANGED notPage

\* the setTimeout callback of showSuccess in the badge front ends
SuccessTimer ==
    /\ timers > 0
    /\ timers' = timers - 1
    /\ display' = [display EXCEPT !.visible = (@ \ {"verification"}) \cup {"success"}]
    /\ UNCHANGED <<app, loaded, url, button, flows, clicks>>
    /\ UNCHANGED notPage

\* handleGetAnother / handleRegisterAnother: the button of the success
\* screen of the issuance front ends
handleGetAnother ==
    /\ loaded
    /\ app \in Apps \ VerificationApps
    /\ "success" \in display.visible
    /\ button' = EnabledButton
    /\ display' = [display EXCEPT !.visible = {"start"}, !.text = ResetText,
                                  !.errorStyle = FALSE, !.icon = "none", !.link = FALSE]
    /\ UNCHANGED <<app, loaded, url, flows, timers, clicks>>
    /\ UNCHANGED notPage

PageNext ==
    \/ init
    \/ \E dcApi \in BOOLEAN : Click(dcApi)
    \/ \E withPin \in BOOLEAN : RequestCreated(withPin)
    \/ \E error \in CreateErrors : RequestFails(error)
    \/ \E f \in Flows, session \in Sessions : PollFetched(f, session)
    \/ \E f \in Flows, error \in TransportErrors : PollFetchFails(f, error)
    \/ \E f \in Flows : PollTimesOut(f)
    \/ DcApiStepDone
    \/ DcApiUnavailable
    \/ \E credential \in Credentials : DcApiNoCredential(credential)
    \/ \E error \in DcApiErrors : DcApiStepFails(error)
    \/ SuccessTimer
    \/ handleGetAnother

PageSpec == PageInit /\ [][PageNext]_<<uivars, notPage>>

\* the texts a front end shows while a flow is under way
WaitingTexts(a) ==
    {Texts(a).resume, Texts(a).scan, Texts(a).pending, Texts(a).processing,
     ScanWithPin, DcApiOpening, ResetText}
    \cup {DcApiStatuses[i] : i \in 1..Len(DcApiStatuses)}

\* the page shows a waiting or processing state
IsWaitingDisplay(a, d) ==
    \/ d.text \in WaitingTexts(a)
    \/ d.badge \in {"waiting", "processing"}

\* the page shows the error state for `error`: the status screen is visible
\* and carries the error text and the error mark of the front end
IsErrorDisplay(a, d, error) ==
    /\ "verification" \in d.visible
    /\ d.text = Texts(a).errorPrefix \o error.message
    /\ IF a \in BadgeApps THEN d.badge = "error" ELSE d.errorStyle
    /\ a \in VerificationApps => (d.icon = "error" /\ ~d.link)

\* the page shows the success state
IsSuccessDisplay(a, d) ==
    IF a \in BadgeApps THEN d.badge = "success" \/ d.text = Texts(a).success
    ELSE "success" \in d.visible

\* the failures a poll can end with
PollFailures ==
    {SessionError("failed"), SessionError("expired"), TimedOutError} \cup TransportErrors

\* C20: in every front end, a poll started by the action button or by
\* resumeSession that ends in SessionFailed, SessionTimedOut or a transport
\* error leaves the page in the error state of handleError, which is none of
\* the waiting/processing states, and never in the success state.
C20_PollFailureShowsError ==
    \A f \in Flows :
        flows[f].failure # NoError =>
            /\ flows[f].failure \in PollFailures
            /\ IsErrorDisplay(app, flows[f].shown, flows[f].failure)
            /\ ~IsWaitingDisplay(app, flows[f].shown)
            /\ ~IsSuccessDisplay(app, flows[f].shown)
            /\ ~flows[f].succeeded

C20_Witness ==
    /\ app = "job-portal"
    /\ flows["click"].failure = TimedOutError
    /\ flows["click"].fetches = 2
    /\ display.badge = "error"

\* the flows of the page whose waitForSession is running
Polling == {f \in Flows : flows[f].pc = "polling"}

\* the click handler has started and not ended
ClickActive == flows["click"].pc \notin {"idle", "done"}

SameStatus(d, s) == [d EXCEPT !.visible = {}] = [s EXCEPT !.visible = {}]

C27_ButtonBusyThenEnabled ==
    app \in VerificationApps =>
        /\ ClickActive => button = BusyButton
        /\ flows["click"].pc = "done" => button = EnabledButton

C27_Witness ==
    /\ app = "sim-activation"
    /\ flows["click"].pc = "done"
    /\ flows["click"].succeeded
    /\ flows["click"].fetches = 1
    /\ button = EnabledButton

\* C28: a verification page loaded with a session parameter polls that
\* session in resumeSession and creates no request, and when the poll has
\* ended, in success and in every failure, the parameter was gone from the
\* URL before the final state was shown.
C28_ResumePollsUrlSessionAndClearsIt ==
    app \in VerificationApps =>
        /\ (loaded /\ url) => flows["resume"].pc = "polling"
        /\ flows["resume"].pc # "idle" =>
              /\ flows["resume"].sessionId = UrlSession
              /\ flows["resume"].created = 0
        /\ flows["resume"].pc = "done" =>
              /\ flows["resume"].urlShown = "without-session"
              /\ ~url

C28_Witness ==
    /\ app = "sports-shop"
    /\ flows["resume"].pc = "done"
    /\ flows["resume"].failure = TimedOutError
    /\ flows["resume"].urlShown = "without-session"

\* the statuses and steps of a run of verifyWithDcApi that nothing interrupts
DcApiRun ==
    <<DcApiStatuses[1], "startDcApiVerification", DcApiStatuses[2], "callDcApi",
      DcApiStatuses[3], "completeDcApiVerification", "result">>

\* s is the first Len(s) elements of t
IsPrefix(s, t) == Len(s) <= Len(t) /\ s = SubSeq(t, 1, Len(s))

\* C29: verifyWithDcApi reports 'Starting verification...', 'Opening
\* wallet...', 'Processing verification...' in this order, each right before
\* the step it announces, runs the three steps in order, and after a step
\* has failed neither a later step nor a later status follows.
C29_DcApiStepsInOrder ==
    LET t == flows["click"].trace
        n == Len(t)
    IN  IF n > 0 /\ t[n] = "failed"
        THEN /\ n - 1 \in {2, 4, 6}
             /\ IsPrefix(SubSeq(t, 1, n - 1), DcApiRun)
             /\ flows["click"].pc = "done"
        ELSE /\ n \in {0, 2, 4, 6, 7}
             /\ IsPrefix(t, DcApiRun)

C29_Witness ==
    /\ Len(flows["click"].trace) = 5
    /\ flows["click"].trace[5] = "failed"
    /\ flows["click"].pc = "done"

\* --------------------------------------------- the playground server
\* Each route handler is an async function: Receive is its run up to the
\* awaited SDK call or up to an early reply, SdkReturns and SdkThrows are its
\* continuation.  The page's request helpers (createIssuanceOffer,
\* getSessionStatus) build the request and read the reply.

\* the keys of USE_CASES
UseCaseIds ==
    {"alcohol-shop", "bank-onboarding", "sim-activation", "museum-discount",
     "parcel-pickup", "job-portal", "sports-shop"}

\* USE_CASES[id].presentationConfigId
presentationConfigId(id) ==
    CASE id = "alcohol-shop" -> "age-over-18"
      [] id \in {"bank-onboarding", "sim-activation"} -> "playground-pid"
      [] id = "museum-discount" -> "resident-city"
      [] id = "parcel-pickup" -> "name-only"
      [] id = "job-portal" -> "diploma-and-pid"
      [] id = "sports-shop" -> "loyalty-card"

\* the keys of CREDENTIALS; each credentialConfigId equals its key
CredentialIds == {"pid", "university-diploma", "loyalty-card"}

\* property names every object literal inherits from Object.prototype
ObjectPrototypeKeys == {"constructor", "toString", "__proto__"}

\* USE_CASES[useCase]: an own entry, an inherited property (a truthy value
\* without presentationConfigId), or undefined
lookupUseCase(key) ==
    IF key \in UseCaseIds THEN [truthy |-> TRUE, configId |-> presentationConfigId(key)]
    ELSE IF key \in ObjectPrototypeKeys THEN [truthy |-> TRUE, configId |-> Undefined]
    ELSE [truthy |-> FALSE, configId |-> Undefined]

\* CREDENTIALS[credentialId], likewise
lookupCredential(key) ==
    IF key \in CredentialIds THEN [truthy |-> TRUE, configId |-> key]
    ELSE IF key \in ObjectPrototypeKeys THEN [truthy |-> TRUE, configId |-> Undefined]
    ELSE [truthy |-> FALSE, configId |-> Undefined]

\* values of useCase and credentialId a request body can carry
UseCaseInputs == {"job-portal", "unknown-shop", "constructor"}

CredentialInputs == {"loyalty-card", "unknown-card", "constructor"}

\* the claims of a loyalty card, as handleRegister builds them
MemberClaims == [NoClaims EXCEPT !.kind = "object", !.member_id = "FL-1"]

\* the object { claims, useTxCode } handleRegister passes as its second argument
RegisterOptions(useSecure) ==
    [NoClaims EXCEPT !.kind = "object", !.claims = MemberClaims.member_id,
                     !.useTxCode = IF useSecure THEN "true" ELSE "false"]

\* session ids: the one the backend holds, and one it does not know
SessionIds == {"s1", "s2"}

\* Math.random() is random / (900000 * RandomScale), for random in
\* 0 .. 900000 * RandomScale - 1: the values of [0, 1) the model tells apart
RandomScale == 2

\* values of Math.random(): the least, one in the middle, the greatest
RandomSamples == {0, 448213 * RandomScale + 1, 900000 * RandomScale - 1}

\* mutant of the number: the offset 100000 is left out
txCodeNumberNoOffset(random) == random \div RandomScale

\* Math.floor(100000 + Math.random() * 900000)
txCodeNumber(random) == 100000 + random \div RandomScale

RECURSIVE digitsOf(_)
\* the decimal digits of a number that is not negative, the first digit first
digitsOf(n) == IF n < 10 THEN <<n>> ELSE Append(digitsOf(n \div 10), n % 10)

DigitChar(d) ==
    CASE d = 0 -> "0" [] d = 1 -> "1" [] d = 2 -> "2" [] d = 3 -> "3" [] d = 4 -> "4"
      [] d = 5 -> "5" [] d = 6 -> "6" [] d = 7 -> "7" [] d = 8 -> "8" [] d = 9 -> "9"

RECURSIVE digitString(_)
digitString(digits) ==
    IF digits = <<>> THEN "" ELSE DigitChar(Head(digits)) \o digitString(Tail(digits))

\* Number.prototype.toString() of a number that is not negative
toString(n) == digitString(digitsOf(n))

\* generateTxCode(), for one value of Math.random()
generateTxCode(random) == toString(txCodeNumber(random))

\* values generateTxCode returns
TxCodeSamples == {generateTxCode(random) : random \in RandomSamples}

\* errors the backend SDK throws: with a message, and with an empty one
SdkErrors == {"Session not found", ""}

\* res.status(400).json({ error })
BadRequest(message) == [code |-> 400, body |-> [NoBody EXCEPT !.error = message]]

\* the catch block of a route: error.message || 'Internal Server Error'
ServerError(message) ==
    [code |-> 500,
     body |-> [NoBody EXCEPT !.error = IF message = "" THEN "Internal Server Error" ELSE message]]

\* mutant of the body of GET /api/session/:id: the whole backend session
sessionBodyWhole(session) ==
    [NoBody EXCEPT !.status = session.status, !.credentials = session.credentials,
                   !.presentation = session.presentation,
                   !.requestObject = session.requestObject]

\* the body of GET /api/session/:id: { status, credentials }
sessionBody(session) ==
    [NoBody EXCEPT !.status = session.status, !.credentials = session.credentials]

\* the request createIssuanceOffer(credentialId, claims) sends:
\* JSON.stringify({ credentialId, claims })
createIssuanceOffer(credentialId, claims) ==
    [NoRequest EXCEPT !.route = "issue", !.credentialId = credentialId,
                      !.claims = claims, !.origin = "page"]

\* the request getSessionStatus(sessionId) sends
getSessionStatus(sessionId) ==
    [NoRequest EXCEPT !.route = "session", !.id = sessionId, !.origin = "page"]

\* responseUri and walletResponse of a body sent to /api/dc-api/complete:
\* both given, one empty, one left out
CompleteInputs ==
    {<<"https://backend/response", "vp-token">>, <<"", "vp-token">>,
     <<"https://backend/response", "">>, <<Undefined, "vp-token">>,
     <<"https://backend/response", Undefined>>}

\* request paths that reach the fallback route: /, /job-portal, /job-portal/,
\* //etc, /%2e%2e/etc, and with a '.': /../../etc, /style.css
FallbackPaths ==
    {<<>>, <<"job-portal">>, <<"job-portal", "">>, <<"", "etc">>, <<"%2e%2e", "etc">>,
     <<"..", "..", "etc">>, <<"style.css">>}

\* requests any HTTP client can send; a POST without a JSON body is sent to
\* /api/dc-api/complete only, the other routes read req.body the same way
Requests ==
    {[NoRequest EXCEPT !.route = rt, !.useCase = u] :
        rt \in {"verify", "dc-start"}, u \in UseCaseInputs}
    \cup {[NoRequest EXCEPT !.route = "issue", !.credentialId = c, !.claims = cl,
                            !.useTxCode = tx] :
             c \in CredentialInputs, cl \in {NoClaims, MemberClaims}, tx \in {Undefined, "true"}}
    \cup {[NoRequest EXCEPT !.route = "session", !.id = i] : i \in SessionIds}
    \cup {[NoRequest EXCEPT !.route = "dc-complete", !.responseUri = c[1],
                            !.walletResponse = c[2]] : c \in CompleteInputs}
    \cup {[NoRequest EXCEPT !.route = "dc-complete", !.hasBody = FALSE]}
    \cup {[NoRequest EXCEPT !.route = "fallback", !.path = q] : q \in FallbackPaths}

\* the server is started, the page is open
ServerInit ==
    /\ PollsQuiet
    /\ PollQuiet
    /\ PageQuiet
    /\ ServerQuiet

\* mutant of getClient: a client is constructed for every request
getClientPerRequest ==
    /\ clients' = clients + 1
    /\ eudiploClient' = clients + 1

\* getClient(): eudiploClient ??= new EudiploClient(...)
getClient ==
    IF eudiploClient = 0
    THEN /\ clients' = clients + 1
         /\ eudiploClient' = clients + 1
    ELSE UNCHANGED <<clients, eudiploClient>>

\* a call to the backend SDK, as recorded: the handler that made it, the
\* function, its arguments and the client instance it was made on
NoCall ==
    [by |-> 0, fn |-> "none", configId |-> Undefined, txCode |-> Undefined, client |-> 0,
     responseUri |-> Undefined, walletResponse |-> Undefined]

\* the call a handler makes to the backend SDK, as recorded
SdkCall(r, fn, configId, txCode) ==
    sdkCalls' = Append(sdkCalls, [NoCall EXCEPT !.by = r, !.fn = fn, !.configId = configId,
                                                !.txCode = txCode, !.client = eudiploClient'])

\* submitDcApiWalletResponse({ responseUri, walletResponse: { response } }):
\* a function of the SDK that takes no client
SdkSubmit(r, responseUri, walletResponse) ==
    sdkCalls' = Append(sdkCalls, [NoCall EXCEPT !.by = r, !.fn = "submitDcApiWalletResponse",
                                                !.responseUri = responseUri,
                                                !.walletResponse = walletResponse])

\* the routes that read req.body
PostRoutes == {"verify", "issue", "dc-start", "dc-complete"}

\* the property a route destructures first from req.body
FirstProperty(route) ==
    CASE route \in {"verify", "dc-start"} -> "useCase"
      [] route = "issue" -> "credentialId"
      [] route = "dc-complete" -> "responseUri"

\* the TypeError of `const { ... } = req.body` when req.body is undefined
DestructureError(route) ==
    "Cannot destructure property '" \o FirstProperty(route)
        \o "' of 'req.body' as it is undefined."

\* !v is false: v is neither undefined nor the empty string
Truthy(v) == v \notin {Undefined, ""}

\* publicDir, as path segments
PublicDir == <<"app", "public">>

\* path segments that contain a '.'
DotSegments == {".", "..", "style.css"}

\* mutant of the extension test: no path is taken to name a file
includesDotNever(segments) == FALSE

\* requestPath.includes('.')
includesDot(segments) == \E i \in 1..Len(segments) : segments[i] \in DotSegments

RECURSIVE normalizeFrom(_, _)
\* the segments `rest` applied to the directory `base`: an empty segment and
\* '.' are dropped, '..' leaves the last directory, and stays at the root
normalizeFrom(base, rest) ==
    IF rest = <<>> THEN base
    ELSE LET segment == Head(rest)
             next == IF segment \in {"", "."} THEN base
                     ELSE IF segment = ".."
                          THEN IF base = <<>> THEN <<>> ELSE SubSeq(base, 1, Len(base) - 1)
                          ELSE Append(base, segment)
         IN  normalizeFrom(next, Tail(rest))

\* path.normalize(requestPath).replace(/^(\.\.[/\\])+/, '').slice(1): the
\* request path is absolute, so the pattern finds no leading '../'
normalizedPath(segments) == normalizeFrom(<<>>, segments)

\* path.resolve(publicDir, relative, 'index.html')
resolveIndex(relative) == normalizeFrom(PublicDir, relative \o <<"index.html">>)

\* indexPath.startsWith(publicDir)
startsWithPublicDir(file) ==
    Len(file) >= Len(PublicDir) /\ SubSeq(file, 1, Len(PublicDir)) = PublicDir

RECURSIVE joinPath(_)
\* the segments as one absolute path
joinPath(segments) ==
    IF segments = <<>> THEN "" ELSE "/" \o Head(segments) \o joinPath(Tail(segments))

\* res.status(code).send(text)
SendText(code) == [code |-> code, body |-> NoBody]

\* replies the server has sent so far
RepliesSent == Cardinality({q \in ReqIds : handlers[q].replies > 0})

\* request `req` reaches its route: handler r runs up to its await or its reply
Receive(r, req) ==
    /\ handlers[r].pc = "none"
    /\ \A q \in ReqIds : q < r => handlers[q].pc # "none"
    /\ CASE req.route \in PostRoutes /\ ~req.hasBody ->
              /\ handlers' = [handlers EXCEPT ![r] = [@ EXCEPT !.request = req,
                     !.pc = "replied", !.replies = @ + 1, !.after = RepliesSent,
                     !.reply = ServerError(DestructureError(req.route))]]
              /\ UNCHANGED <<eudiploClient, clients, sdkCalls, txCodes>>
         [] req.route = "dc-complete" /\ req.hasBody ->
              IF ~Truthy(req.responseUri) \/ ~Truthy(req.walletResponse)
              THEN /\ handlers' = [handlers EXCEPT ![r] = [@ EXCEPT !.request = req,
                          !.pc = "replied", !.replies = @ + 1, !.after = RepliesSent,
                          !.reply = BadRequest("Missing responseUri or walletResponse")]]
                   /\ UNCHANGED <<eudiploClient, clients, sdkCalls, txCodes>>
              ELSE /\ SdkSubmit(r, req.responseUri, req.walletResponse)
                   /\ handlers' = [handlers EXCEPT ![r] = [@ EXCEPT !.request = req,
                                          !.pc = "awaiting", !.after = RepliesSent]]
                   /\ UNCHANGED <<eudiploClient, clients, txCodes>>
         [] req.route = "fallback" ->
              /\ IF includesDot(req.path)
                 THEN handlers' = [handlers EXCEPT ![r] = [@ EXCEPT !.request = req,
                          !.pc = "replied", !.replies = @ + 1, !.after = RepliesSent,
                          !.reply = SendText(404)]]
                 ELSE LET indexPath == resolveIndex(normalizedPath(req.path))
                      IN  IF ~startsWithPublicDir(indexPath)
                          THEN handlers' = [handlers EXCEPT ![r] = [@ EXCEPT !.request = req,
                                   !.pc = "replied", !.replies = @ + 1, !.after = RepliesSent,
                                   !.resolved = indexPath, !.reply = SendText(403)]]
                          ELSE \E found \in BOOLEAN :
                                 handlers' = [handlers EXCEPT ![r] = [@ EXCEPT !.request = req,
                                   !.pc = "replied", !.replies = @ + 1, !.after = RepliesSent,
                                   !.resolved = indexPath,
                                   !.reply = [code |-> 200, body |-> [NoBody EXCEPT !.file =
                                       IF found THEN joinPath(indexPath)
                                       ELSE joinPath(PublicDir \o <<"index.html">>)]]]]
              /\ UNCHANGED <<eudiploClient, clients, sdkCalls, txCodes>>
         [] req.route = "verify" /\ req.hasBody ->
              LET useCaseConfig == lookupUseCase(req.useCase)
              IN  IF ~useCaseConfig.truthy
                  THEN /\ handlers' = [handlers EXCEPT ![r] = [@ EXCEPT !.request = req,
                              !.pc = "replied", !.replies = @ + 1, !.after = RepliesSent,
                              !.reply = BadRequest("Unknown use case: " \o req.useCase)]]
                       /\ UNCHANGED <<eudiploClient, clients, sdkCalls, txCodes>>
                  ELSE /\ getClient
                       /\ SdkCall(r, "createPresentationRequest", useCaseConfig.configId, Undefined)
                       /\ handlers' = [handlers EXCEPT ![r] = [@ EXCEPT !.request = req,
                                              !.pc = "awaiting", !.after = RepliesSent]]
                       /\ UNCHANGED txCodes
         [] req.route = "dc-start" /\ req.hasBody ->
              LET useCaseConfig == lookupUseCase(req.useCase)
              IN  IF ~useCaseConfig.truthy
                  THEN /\ handlers' = [handlers EXCEPT ![r] = [@ EXCEPT !.request = req,
                              !.pc = "replied", !.replies = @ + 1, !.after = RepliesSent,
                              !.reply = BadRequest("Unknown use case: " \o req.useCase)]]
                       /\ UNCHANGED <<eudiploClient, clients, sdkCalls, txCodes>>
                  ELSE /\ UNCHANGED <<eudiploClient, clients>>
                       /\ SdkCall(r, "createDcApiRequestForBrowser", useCaseConfig.configId,
                                  Undefined)
                       /\ handlers' = [handlers EXCEPT ![r] = [@ EXCEPT !.request = req,
                                              !.pc = "awaiting", !.after = RepliesSent]]
                       /\ UNCHANGED txCodes
         [] req.route = "issue" /\ req.hasBody ->
              LET credential == lookupCredential(req.credentialId)
              IN  IF ~credential.truthy
                  THEN /\ handlers' = [handlers EXCEPT ![r] = [@ EXCEPT !.request = req,
                              !.pc = "replied", !.replies = @ + 1, !.after = RepliesSent,
                              !.reply = BadRequest("Unknown credential: " \o req.credentialId)]]
                       /\ UNCHANGED <<eudiploClient, clients, sdkCalls, txCodes>>
                  ELSE /\ getClient
                       /\ \E random \in RandomSamples :
                             LET code == generateTxCode(random)
                                 txCode == IF req.useTxCode = "true" THEN code ELSE Undefined
                             IN  /\ txCodes' = IF req.useTxCode = "true"
                                               THEN Append(txCodes,
                                                      [by |-> r, code |-> code,
                                                       number |-> txCodeNumber(random),
                                                       random |-> random])
                                               ELSE txCodes
                                 /\ SdkCall(r, "createIssuanceOffer", credential.configId, txCode)
                       /\ handlers' = [handlers EXCEPT ![r] = [@ EXCEPT !.request = req,
                                              !.pc = "awaiting", !.after = RepliesSent]]
         [] req.route = "session" ->
              /\ getClient
              /\ SdkCall(r, "getSession", req.id, Undefined)
              /\ handlers' = [handlers EXCEPT ![r] = [@ EXCEPT !.request = req,
                                     !.pc = "awaiting", !.after = RepliesSent]]
              /\ UNCHANGED txCodes
    /\ UNCHANGED backend
    /\ UNCHANGED notServer

\* a request of some HTTP client arrives
Request(r, req) ==
    /\ Receive(r, req)
    /\ UNCHANGED browser

\* the awaited SDK call of handler r returns: res.json(...)
SdkReturns(r) ==
    /\ handlers[r].pc = "awaiting"
    /\ handlers[r].request.route = "session" => handlers[r].request.id = "s1"
    /\ LET req == handlers[r].request
           call == sdkCalls[CHOOSE i \in 1..Len(sdkCalls) : sdkCalls[i].by = r]
           body == CASE req.route = "verify" ->
                          [NoBody EXCEPT !.uri = "openid4vp://request", !.sessionId = "s1"]
                     [] req.route = "dc-start" ->
                          [NoBody EXCEPT !.requestObject = "signed-request", !.sessionId = "s1"]
                     [] req.route = "issue" ->
                          [NoBody EXCEPT !.uri = "openid-credential-offer://offer",
                                         !.sessionId = "s1", !.txCode = call.txCode]
                     [] req.route = "session" -> sessionBody(backend)
                     [] req.route = "dc-complete" ->
                          [NoBody EXCEPT !.presentation = backend.presentation,
                                         !.credentials = backend.credentials]
       IN  handlers' = [handlers EXCEPT ![r] = [@ EXCEPT !.pc = "replied", !.replies = @ + 1,
                            !.reply = [code |-> 200, body |-> body], !.served = backend]]
    /\ UNCHANGED <<backend, eudiploClient, clients, sdkCalls, txCodes, browser>>
    /\ UNCHANGED notServer

\* mutant of the catch block: the error is logged and no reply is sent
SdkThrowsUnanswered(r, message) ==
    /\ handlers[r].pc = "awaiting"
    /\ handlers' = [handlers EXCEPT ![r] = [@ EXCEPT !.pc = "failed", !.thrown = message]]
    /\ UNCHANGED <<backend, eudiploClient, clients, sdkCalls, txCodes, browser>>
    /\ UNCHANGED notServer

\* the awaited SDK call of handler r throws: the catch block of the route
SdkThrows(r, message) ==
    /\ handlers[r].pc = "awaiting"
    /\ handlers' = [handlers EXCEPT ![r] = [@ EXCEPT !.pc = "replied", !.replies = @ + 1,
                              !.thrown = message, !.reply = ServerError(message)]]
    /\ UNCHANGED <<backend, eudiploClient, clients, sdkCalls, txCodes, browser>>
    /\ UNCHANGED notServer

\* the wallet acts on the backend session: it is processed, then verified
\* (with a presentation), issued (with credentials) or failed
Wallet(next) ==
    /\ backend.status \in {"pending", "processing"}
    /\ backend.status = "processing" => next.status # "pending"
    /\ next.status # backend.status
    /\ next.presentation # Undefined => next.status = "completed"
    /\ next.credentials # Undefined => next.status = "fetched"
    /\ backend' = next
    /\ UNCHANGED <<eudiploClient, clients, sdkCalls, txCodes, handlers, browser>>
    /\ UNCHANGED notServer

\* handleRegister(useSecure) of the loyalty-card page up to its await of
\* createIssuanceOffer(CREDENTIAL_ID, { claims, useTxCode: useSecure })
PageRegisters(r, useSecure) ==
    /\ ~browser.offered
    /\ \A q \in ReqIds : handlers[q].request.route # "issue" \/ handlers[q].request.origin # "page"
    /\ Receive(r, createIssuanceOffer("loyalty-card",
                                      RegisterOptions(useSecure)))
    /\ browser' = [browser EXCEPT !.secure = useSecure]

\* a fetch of the page's poll: getSessionStatus(sessionId)
PagePolls(r) ==
    /\ ~browser.success
    /\ \A q \in ReqIds :
          (handlers[q].request.route = "session" /\ handlers[q].request.origin = "page")
              => handlers[q].delivered
    /\ Receive(r, getSessionStatus("s1"))
    /\ UNCHANGED browser

\* the reply of handler r reaches the page that asked: createIssuanceOffer
\* returns to handleRegister (lines 160-172), or getSessionStatus returns to
\* waitForSession, which returns to showSuccess when the status is terminal
PageReceives(r) ==
    /\ handlers[r].pc = "replied"
    /\ handlers[r].request.origin = "page"
    /\ ~handlers[r].delivered
    /\ handlers' = [handlers EXCEPT ![r].delivered = TRUE]
    /\ LET reply == handlers[r].reply
       IN  IF reply.code # 200 THEN UNCHANGED browser
           ELSE IF handlers[r].request.route = "issue"
                THEN browser' = [browser EXCEPT !.offered = TRUE,
                        !.txCodeShown = IF browser.secure /\ reply.body.txCode # Undefined
                                        THEN reply.body.txCode ELSE Undefined]
                ELSE IF IsSuccess(reply.body.status) /\ ~browser.success
                     THEN browser' = [browser EXCEPT !.success = TRUE,
                                                     !.rendered = reply.body.presentation]
                     ELSE UNCHANGED browser
    /\ UNCHANGED <<backend, eudiploClient, clients, sdkCalls, txCodes>>
    /\ UNCHANGED notServer

ServerNext ==
    \/ \E r \in ReqIds, req \in Requests : Request(r, req)
    \/ \E r \in ReqIds : SdkReturns(r)
    \/ \E r \in ReqIds, message \in SdkErrors : SdkThrows(r, message)
    \/ \E next \in BackendSessions : Wallet(next)
    \/ \E r \in ReqIds, useSecure \in BOOLEAN : PageRegisters(r, useSecure)
    \/ \E r \in ReqIds : PagePolls(r)
    \/ \E r \in ReqIds : PageReceives(r)

ServerSpec == ServerInit /\ [][ServerNext]_<<svars, notServer>>

\* the SDK calls handler r has made
CallsBy(r) == {i \in 1..Len(sdkCalls) : sdkCalls[i].by = r}

\* handler r answered a poll of the page with a backend session that is
\* completed and carries a presentation
ServedPresentation(r) ==
    /\ handlers[r].request.route = "session"
    /\ handlers[r].request.origin = "page"
    /\ handlers[r].delivered
    /\ handlers[r].reply.code = 200
    /\ handlers[r].served.status = "completed"
    /\ handlers[r].served.presentation # Undefined

\* C21: in the QR-code flow, when the backend session is completed with a
\* presentation, the Session the poll hands to showSuccess carries that
\* presentation, and the page renders its claims.
C21_RenderedClaimsAreBackendClaims ==
    \A r \in ReqIds :
        ServedPresentation(r) =>
            /\ handlers[r].reply.body.presentation = handlers[r].served.presentation
            /\ browser.success
            /\ browser.rendered = handlers[r].served.presentation

\* C22: /api/verify and /api/dc-api/start answer a useCase that is no key of
\* USE_CASES with 400 `Unknown use case` and call no SDK function; for a key
\* they call the backend with that use case's presentationConfigId.
C22_UnknownUseCaseRejected ==
    \A r \in ReqIds :
        handlers[r].request.route \in {"verify", "dc-start"} =>
            IF handlers[r].request.useCase \in UseCaseIds
            THEN /\ CallsBy(r) # {}
                 /\ \A i \in CallsBy(r) :
                       sdkCalls[i].configId = presentationConfigId(handlers[r].request.useCase)
            ELSE /\ CallsBy(r) = {}
                 /\ handlers[r].reply =
                       BadRequest("Unknown use case: " \o handlers[r].request.useCase)

\* C23: /api/issue answers a credentialId that is no key of CREDENTIALS with
\* 400 `Unknown credential`, generates no transaction code and creates no offer.
C23_UnknownCredentialRejected ==
    \A r \in ReqIds :
        (handlers[r].request.route = "issue"
            /\ handlers[r].request.credentialId \notin CredentialIds) =>
            /\ CallsBy(r) = {}
            /\ \A i \in 1..Len(txCodes) : txCodes[i].by # r
            /\ handlers[r].reply =
                  BadRequest("Unknown credential: " \o handlers[r].request.credentialId)

\* C24: a secure registration of the loyalty-card page makes the server
\* generate a transaction code for the offer, which comes back to the page
\* and is displayed; a non-secure registration generates and displays none.
C24_SecureRegistrationShowsTxCode ==
    \A r \in ReqIds :
        (handlers[r].request.route = "issue" /\ handlers[r].request.origin = "page"
            /\ handlers[r].delivered /\ handlers[r].reply.code = 200) =>
            \A i \in CallsBy(r) :
                IF browser.secure
                THEN /\ sdkCalls[i].txCode \in TxCodeSamples
                     /\ handlers[r].reply.body.txCode = sdkCalls[i].txCode
                     /\ browser.txCodeShown = sdkCalls[i].txCode
                ELSE /\ sdkCalls[i].txCode = Undefined
                     /\ browser.txCodeShown = Undefined

C31_SdkErrorAnswered500 ==
    \A r \in ReqIds :
        /\ handlers[r].replies <= 1
        /\ handlers[r].pc \in {"none", "awaiting", "replied"}
        /\ (handlers[r].pc = "replied") = (handlers[r].replies = 1)
        /\ handlers[r].thrown # Undefined =>
              /\ handlers[r].pc = "replied"
              /\ handlers[r].reply.code = 500
              /\ handlers[r].reply.body.error \notin {Undefined, ""}
              /\ handlers[r].thrown # "" =>
                    handlers[r].reply.body.error = handlers[r].thrown
        /\ (\E q \in ReqIds : handlers[q].thrown # Undefined) =>
              /\ (handlers[r].pc = "awaiting"
                    /\ handlers[r].request \notin {getSessionStatus("s2"),
                                                    [NoRequest EXCEPT !.route = "session",
                                                                      !.id = "s2"]})
                    => ENABLED SdkReturns(r)
              /\ (handlers[r].pc = "none" /\ \A q \in ReqIds : q < r => handlers[q].pc # "none")
                    => \A req \in Requests : ENABLED Request(r, req)

C31_Witness ==
    /\ handlers[1].request.route = "dc-complete"
    /\ handlers[1].thrown = ""
    /\ handlers[1].reply = ServerError("")
    /\ handlers[2].after = 1
    /\ handlers[2].request.route = "verify"
    /\ handlers[2].reply.code = 200

\* the calls made on the client of getClient
ClientCalls ==
    {i \in 1..Len(sdkCalls) :
        sdkCalls[i].fn \in {"createPresentationRequest", "createIssuanceOffer", "getSession"}}

\* C32: whatever the order and interleaving of the requests, at most one
\* EudiploClient is constructed, and every call of /api/verify, /api/issue
\* and /api/session/:id is made on that one instance.
C32_OneClient ==
    /\ clients <= 1
    /\ eudiploClient \in {0, 1}
    /\ \A i \in ClientCalls : sdkCalls[i].client = 1 /\ eudiploClient = 1

C32_Witness ==
    /\ Len(sdkCalls) = 2
    /\ sdkCalls[1].fn = "getSession"
    /\ sdkCalls[2].fn = "createIssuanceOffer"
    /\ handlers[1].pc = "awaiting"
    /\ handlers[2].pc = "awaiting"
    /\ clients = 1

\* a property of the body is there and not empty
Given(v) == v # Undefined /\ v # ""

Helpers ==
    {"createIssuanceOffer", "createVerificationRequest", "getSessionStatus",
     "startDcApiVerification", "completeDcApiVerification"}

\* the fallback each helper hands to extractErrorMessage
Fallback(helper) ==
    CASE helper = "createIssuanceOffer" -> "Failed to create issuance offer"
      [] helper = "createVerificationRequest" -> "Failed to create request"
      [] helper = "getSessionStatus" -> "Failed to get session"
      [] helper = "startDcApiVerification" -> "Failed to start DC API verification"
      [] helper = "completeDcApiVerification" -> "Failed to complete DC API verification"

\* the responses a fetch of a helper can get
HelperResponses == Responses \cup OkResponses

\* the error a helper throws for a response, or NoError when it returns
\* response.json()
helperError(helper, resp) ==
    IF resp.net = "down" THEN NetworkError
    ELSE IF ~resp.ok
         THEN IF ~resp.json
              THEN [name |-> "Error",
                    message |-> "Request failed with status " \o ToString(resp.code)]
              ELSE [name |-> "Error",
                    message |-> extractErrorMessage(resp.body, Fallback(helper))]
         ELSE IF ~resp.json THEN DecodeError ELSE NoError

HelperInit ==
    /\ PollsQuiet
    /\ PollQuiet
    /\ PageQuiet
    /\ ServerQuiet

\* a helper is called and its fetch gets `resp`
HelperCalled(helper, resp) ==
    /\ helperCall' = [helper |-> helper, response |-> resp,
                      thrown |-> helperError(helper, resp),
                      returned |-> helperError(helper, resp) = NoError]
    /\ UNCHANGED notHelper

HelperNext == \E helper \in Helpers, resp \in HelperResponses : HelperCalled(helper, resp)

HelperSpec == HelperInit /\ [][HelperNext]_<<hvars, notHelper>>

\* C34: every request helper fails on a non-2xx response and does not
\* return its body: the message of the error is the `error` string of a
\* JSON body that has one, and `Request failed with status <n>` when the
\* body is not JSON.
C34_HelpersThrowOnNon2xx ==
    (helperCall.helper # "none" /\ helperCall.response.net = "up"
        /\ ~helperCall.response.ok) =>
        /\ ~helperCall.returned
        /\ helperCall.thrown # NoError
        /\ (helperCall.response.json /\ helperCall.response.body.kind = "object"
              /\ helperCall.response.body.error # "none") =>
                helperCall.thrown.message = helperCall.response.body.error
        /\ ~helperCall.response.json =>
                helperCall.thrown.message =
                    "Request failed with status " \o ToString(helperCall.response.code)

C34_Witness ==
    /\ helperCall.helper = "completeDcApiVerification"
    /\ helperCall.response.code = 500
    /\ helperCall.response.body.error = "Session expired"
    /\ helperCall.response.body.message = "ignored"
    /\ helperCall.thrown.message = "Session expired"
    /\ ~helperCall.returned

\* the expected end of a poll whose fetch returned `session` with a terminal status
DecidedBy(session) ==
    IF IsSuccess(session.status) THEN Resolved(session)
    ELSE Rejected(SessionError(session.status))

\* C35: each iteration of the poll branches on the status just fetched
\* only: a non-terminal status is accepted whatever was fetched before it
\* (processing, then pending), the poll does not fail on it, and the first
\* terminal status fetched is the last fetch and decides the outcome.
C35_LatestStatusDecides ==
    \A i \in 1..Completed :
        Returned(i) =>
            IF IsTerminal(fetched[i].session.status)
            THEN /\ i = Completed
                 /\ outcome = DecidedBy(fetched[i].session)
            ELSE i = Completed => outcome \in {Pending, Rejected(TimedOutError)}

\* C36: the fallback route serves no file outside the public directory: a
\* path with a '.' is answered 404 and no file is resolved for it; any
\* other path is answered 403, or with an index.html inside publicDir.
C36_FallbackStaysInPublicDir ==
    \A r \in ReqIds :
        handlers[r].request.route = "fallback" =>
            IF \E i \in 1..Len(handlers[r].request.path) :
                  handlers[r].request.path[i] \in DotSegments
            THEN /\ handlers[r].reply = SendText(404)
                 /\ handlers[r].resolved = <<>>
            ELSE \/ handlers[r].reply = SendText(403)
                 \/ /\ handlers[r].reply.code = 200
                    /\ startsWithPublicDir(handlers[r].resolved)
                    /\ handlers[r].resolved[Len(handlers[r].resolved)] = "index.html"
                    /\ \A i \in 1..Len(handlers[r].resolved) :
                          handlers[r].resolved[i] \notin {"..", "."}
                    /\ handlers[r].reply.body.file \in
                          {joinPath(handlers[r].resolved),
                           joinPath(PublicDir \o <<"index.html">>)}

C36_Witness ==
    /\ handlers[1].request.route = "fallback"
    /\ handlers[1].request.path = <<"", "etc">>
    /\ handlers[1].reply.body.file = "/app/public/etc/index.html"
    /\ handlers[2].request.path = <<"..", "..", "etc">>
    /\ handlers[2].reply.code = 404

RECURSIVE numberOf(_)
\* the number a sequence of decimal digits denotes
numberOf(digits) ==
    IF digits = <<>> THEN 0
    ELSE 10 * numberOf(SubSeq(digits, 1, Len(digits) - 1)) + digits[Len(digits)]

\* sequences of decimal digits of the lengths a transaction code may have
CodeLengths == 4..6

\* C38: for every value of Math.random(), generateTxCode returns a string
\* of decimal digits, 4 to 6 of them, that denotes a number in 100000..999999.
C38_TxCodeIsSixDigitNumber ==
    \A i \in 1..Len(txCodes) :
        LET digits == digitsOf(txCodes[i].number)
        IN  /\ txCodes[i].code = digitString(digits)
            /\ \A k \in 1..Len(digits) : digits[k] \in 0..9
            /\ Len(digits) \in CodeLengths
            /\ numberOf(digits) = txCodes[i].number
            /\ txCodes[i].number \in 100000..999999

C38_Witness ==
    /\ Len(txCodes) = 2
    /\ txCodes[1].code = "999999"
    /\ txCodes[1].random = 900000 * RandomScale - 1
    /\ txCodes[2].code = "100000"

\* the steps verifyWithDcApi has called in the click handler
StepsCalled == {flows["click"].trace[i] : i \in 1..Len(flows["click"].trace)}

\* C37: callDcApi throws 'Digital Credentials API is not available in this
\* browser' and does not call navigator.credentials.get when
\* isDcApiAvailable() is false; it throws 'No credential returned from
\* wallet' when the browser returns no credential or one without `data`;
\* in both cases verifyWithDcApi ends and sends nothing to /api/dc-api/complete.
C37_CallDcApiFailsBeforeComplete ==
    /\ flows["click"].dcApi = "unavailable" =>
          /\ flows["click"].gets = 0
          /\ flows["click"].dcError = DcApiUnavailableError
    /\ flows["click"].credential \in {"null", "no-data"} =>
          /\ flows["click"].gets = 1
          /\ flows["click"].dcError = NoCredentialError
    /\ (flows["click"].dcApi = "unavailable"
          \/ flows["click"].credential \in {"null", "no-data"}) =>
          /\ flows["click"].pc = "done"
          /\ ~flows["click"].succeeded
          /\ "completeDcApiVerification" \notin StepsCalled
          /\ display.text = Texts(app).errorPrefix \o flows["click"].dcError.message

C37_Witness ==
    /\ app = "bank-onboarding"
    /\ flows["click"].credential = "no-data"
    /\ flows["click"].dcError = NoCredentialError
    /\ flows["click"].gets = 1
    /\ flows["click"].pc = "done"

====
